---- MODULE Spec2Model ----
(***************************************************************************)
(* Stage workers of the melax speech pipeline (TTSWorker, OpenAIWorker,    *)
(* OllamaWorker) and the streamed audio sender push_audio_track_stream.    *)
(*                                                                         *)
(* Threads.  Every worker is driven by two threads: the caller (the GUI    *)
(* thread of mainwindow.py, which alone calls add_request and stop, one    *)
(* call after the other) and the worker's own thread (TTSWorker.run, or    *)
(* the event loop of the QThread an LLM worker was moved to, which runs    *)
(* the queued process_queue invocations one at a time).  Each action is    *)
(* one step of one thread between two accesses to shared state             *)
(* (should_exit, request_queue, the queued invocations).                   *)
(***************************************************************************)
EXTENDS Integers, Sequences, FiniteSets, TLC

\* ---------------------------------------------------------------- bounds
\* Number of add_request calls the caller makes in one run.
MaxReq == 3

\* Longest audio buffer handed to push_audio_track_stream.
MaxSamples == 8

\* Most messages a client sends in one PushAudioStream session.
MaxMsgs == 3

\* Longest text handed to regex_sentence_split on its own.
MaxTextLen == 4

\* ------------------------------------------------------------- constants
Kinds == {"tts", "openai", "ollama"}

\* Characters are one-character strings; a text is a sequence of them.
Punct == {".", "!", "?"}
Markers == {"#", "*"}
Space == {" "}

\* The texts a TTS request may carry: two sentences, one sentence followed
\* by an unterminated tail, no terminal punctuation at all, and the empty text.
Texts ==
    { <<"a", ".", " ", "b", "?">>,
      <<"#", "a", "!", "b">>,
      <<"a">>,
      <<>> }

\* An LLM request's payload plays no part in the worker's control flow.
NoText == <<>>

\* float32 sample values, all different, so that a slice shows where it was cut.
Ramp == <<"0.0", "0.5", "-0.5", "1.0", "0.25", "-0.25", "0.75", "-1.0", "2.0", "-2.0">>

\* The buffers a synthesis engine may return: the first n samples of Ramp.
Buffers == { SubSeq(Ramp, 1, n) : n \in 0..MaxSamples }

\* Sample rates and chunking rates (the ttsChunkDuration slider starts at 1);
\* every pair gives a chunk size of at least one sample, as real rates do.
SampleRates == {4, 8}
ChunkDurations == {1, 2, 4}

\* TTSWorker's default instance_name.
InstanceName == "/World/audio2face/PlayerStreaming"

VARIABLES
    kind,           \* which worker class this run is about
    request_queue,  \* self.request_queue: FIFO of requests
    should_exit,    \* self.should_exit
    is_processing,  \* self.is_processing
    wpc,            \* position of the worker thread
    cur,            \* the request the worker dequeued (its local variables)
    sentences,      \* _process_text_to_a2f: the list being iterated
    sidx,           \* _process_text_to_a2f: index of the current sentence
    pending,        \* process_queue invocations queued on the worker's event loop
    cpc,            \* position of the caller thread
    creq,           \* the request of the add_request call in progress
    nextId,         \* id of the next request the caller submits
    events,         \* signals emitted, in order: [req, ok]
    accepted,       \* history: ids put on the queue, in order
    dispatched,     \* history: ids handed to the engine adapter, in order
    inflight,       \* history: ids dequeued whose handling has not finished
    finished,       \* history: ids whose handling has finished
    raised,         \* history: ids whose adapter or network call raised
    dropped,        \* history: ids still queued when stop cleared the queue
    stopReturned,   \* history: stop() has returned
    stopAt,         \* history: where the worker thread was when stop() was called
    use_streaming,  \* self.use_streaming (TTSWorker)
    ops,            \* history: engine calls and session traffic of the request in hand
    \* push_audio_track_stream: one call
    audio_data,     \* the buffer (a sequence of float32 samples)
    samplerate,
    chunk_duration,
    block_until_playback_is_finished,
    gpc,            \* position of make_generator
    idx,            \* make_generator: read index into the buffer
    msgs,           \* the request messages yielded so far, in order
    sleeps,         \* history: for each time.sleep call, the messages yielded before it
    \* Audio2FaceServicer: one PushAudio or PushAudioStream call
    rpc,            \* which method was called
    session,        \* the request messages the client sends, in order
    pos,            \* how many of them the server has taken from request_iterator
    callbacks,      \* the callbacks that are not None
    svpc,           \* position of the handler
    invoked,        \* history: callbacks invoked, in order, with their outcome
    responses,      \* history: the PushAudioResponse messages returned
    \* regex_sentence_split: one call
    split_text,     \* the argument (text)
    split_result,   \* the list returned (sentences)
    split_returned, \* the call has returned
    \* MainWindow (the coordinator) and the three worker threads it owns
    context,        \* self.context: the conversation, a list of messages
    llm_worker,     \* self.llm_worker: the class of the worker referred to, or "None"
    tts_worker,     \* self.tts_worker: "TTSWorker" or "None"
    transcription_thread, \* self.transcription_thread: the recognizer class, or "None"
    ui,             \* the widgets read by the handlers: combo texts and group visibility
    llm,            \* the completion worker object and its thread
    tts,            \* the synthesis worker thread
    asr,            \* the recognition thread
    gui_events,     \* slot invocations queued on the GUI thread, oldest first
    ui_todo,        \* the steps left of the handler the GUI thread is in
    clicks,         \* how many user actions have been taken
    segments,       \* how many audio segments the recognizer has been handed
    requests,       \* history: the completion requests enqueued, as they were then
    tts_emitted,    \* history: the texts emitted on tts_request_signal
    surfaced,       \* history: the errors logged or shown in a message box
    asr_log,        \* history: recognitions by outcome, and transcripts emitted
    \* the three worker classes side by side, given the same calls
    workers,        \* per class: queue, flags, request in hand, events emitted
    outcomes,       \* what the engine does with each request: "value" or "exception"
    calls           \* history: the add_request and stop calls made, in order

stageVars == <<kind, use_streaming, request_queue, should_exit, is_processing, wpc, cur,
               sentences, sidx, pending, cpc, creq, nextId, events, accepted,
               dispatched, inflight, finished, raised, dropped, stopReturned,
               stopAt, ops>>

streamVars == <<audio_data, samplerate, chunk_duration,
                block_until_playback_is_finished, gpc, idx, msgs, sleeps>>

serverVars == <<rpc, session, pos, callbacks, svpc, invoked, responses>>

splitVars == <<split_text, split_result, split_returned>>

mainVars == <<context, llm_worker, tts_worker, transcription_thread, ui, llm, tts,
              asr, gui_events, ui_todo, clicks, segments, requests, tts_emitted,
              surfaced, asr_log>>

sideVars == <<workers, outcomes, calls>>

otherVars == <<streamVars, serverVars, splitVars, mainVars, sideVars>>

vars == <<stageVars, otherVars>>

callerVars == <<cpc, creq, nextId>>
workerLocals == <<cur, sentences, sidx>>
history == <<accepted, dispatched, inflight, finished, raised, dropped,
             stopReturned, stopAt, ops>>

NoReq == [id |-> 0, text |-> NoText]

Ids(q) == { q[i].id : i \in 1..Len(q) }

\* ------------------------------------------------------- sentence splitter
\* Faulty variant: the markers are left in the text.
Clean_keep(text) == text

\* re.sub(r'[\#\*]', '', text)
Clean(text) == SelectSeq(text, LAMBDA c : c \notin Markers)

\* re.split(r'([.!?])', s): the pieces between punctuation marks, with each
\* mark as a piece of its own; always an odd number of pieces.
RECURSIVE SplitParts(_, _, _)
SplitParts(s, piece, acc) ==
    IF s = <<>> THEN Append(acc, piece)
    ELSE IF Head(s) \in Punct
         THEN SplitParts(Tail(s), <<>>, acc \o <<piece, <<Head(s)>>>>)
         ELSE SplitParts(Tail(s), Append(piece, Head(s)), acc)

\* str.strip()
RECURSIVE LStrip(_)
LStrip(s) == IF s # <<>> /\ Head(s) \in Space THEN LStrip(Tail(s)) ELSE s
RECURSIVE RStrip(_)
RStrip(s) ==
    IF s # <<>> /\ s[Len(s)] \in Space THEN RStrip(SubSeq(s, 1, Len(s) - 1)) ELSE s
Strip(s) == RStrip(LStrip(s))

\* for i in range(0, len(parts) - 1, 2): ... (i is 0-based in the source)
RECURSIVE CollectSentences(_, _, _)
CollectSentences(parts, i, acc) ==
    IF i >= Len(parts) - 1 THEN acc
    ELSE LET sentence == Strip(parts[i + 1])
             punctuation == Strip(parts[i + 2])
         IN CollectSentences(parts, i + 2,
                IF sentence # <<>> THEN Append(acc, sentence \o punctuation) ELSE acc)

regex_sentence_split(text) == CollectSentences(SplitParts(Clean(text), <<>>, <<>>), 0, <<>>)

\* No push_audio_track_stream call is under way.
NoStream ==
    /\ audio_data = <<>>
    /\ samplerate = 0
    /\ chunk_duration = 0
    /\ block_until_playback_is_finished = FALSE
    /\ gpc = "none"
    /\ idx = 0
    /\ msgs = <<>>
    /\ sleeps = <<>>

\* No Audio2FaceServicer call is under way.
NoServer ==
    /\ rpc = "none"
    /\ session = <<>>
    /\ pos = 0
    /\ callbacks = {}
    /\ svpc = "none"
    /\ invoked = <<>>
    /\ responses = <<>>

\* No regex_sentence_split call is under way.
NoSplit ==
    /\ split_text = <<>>
    /\ split_result = <<>>
    /\ split_returned = FALSE

\* A completion request: the messages list it was given, and whether that
\* list is the very object self.context refers to.
NoRequest == [id |-> 0, messages |-> <<>>, shares |-> FALSE]

\* The thread objects while there is none.
NoLLM == [kind |-> "None", should_exit |-> FALSE, queue |-> <<>>, pc |-> "idle",
          cur |-> NoRequest]
NoTTS == [engine |-> "None", choice |-> "None", should_exit |-> FALSE,
          queue |-> <<>>, pc |-> "exited", cur |-> ""]
NoASR == [kind |-> "None", running |-> FALSE, pc |-> "exited"]

\* No MainWindow is being looked at.
NoMain ==
    /\ context = <<>>
    /\ llm_worker = "None"
    /\ tts_worker = "None"
    /\ transcription_thread = "None"
    /\ ui = [LLMChocie |-> "", ttsEngineCombo |-> "", recognizerMBOX |-> "",
             openai_group |-> FALSE, llama_group |-> FALSE]
    /\ llm = NoLLM
    /\ tts = NoTTS
    /\ asr = NoASR
    /\ gui_events = <<>>
    /\ ui_todo = <<[op |-> "closed", fn |-> "", arg |-> ""]>>
    /\ clicks = 0
    /\ segments = 0
    /\ requests = <<>>
    /\ tts_emitted = <<>>
    /\ surfaced = <<>>
    /\ asr_log = [recognized |-> 0, failed |-> 0, emitted |-> 0]

\* A worker object as its __init__ leaves it (llm_modules.py:17-19, 82-84;
\* the TTSWorker's queue and flags likewise), with nothing emitted yet.
NoStage == [request_queue |-> <<>>, should_exit |-> FALSE, is_processing |-> FALSE,
            cur |-> 0, events |-> <<>>, dispatched |-> <<>>, at_stop |-> 0]

\* No side-by-side run is being looked at.
NoSide ==
    /\ workers = [k \in Kinds |-> NoStage]
    /\ outcomes = <<>>
    /\ calls = <<>>

\* ------------------------------------------------------------------ Init
Init ==
    /\ kind \in Kinds
    /\ use_streaming \in (IF kind = "tts" THEN BOOLEAN ELSE {FALSE})
    /\ request_queue = <<>>
    /\ should_exit = FALSE
    /\ is_processing = FALSE
    /\ wpc = IF kind = "tts" THEN "loop" ELSE "evloop"
    /\ cur = NoReq
    /\ sentences = <<>>
    /\ sidx = 0
    /\ pending = 0
    /\ cpc = "idle"
    /\ creq = NoReq
    /\ nextId = 1
    /\ events = <<>>
    /\ accepted = <<>>
    /\ dispatched = <<>>
    /\ inflight = {}
    /\ finished = {}
    /\ raised = {}
    /\ dropped = {}
    /\ stopReturned = FALSE
    /\ stopAt = "none"
    /\ ops = <<>>
    /\ NoStream
    /\ NoServer
    /\ NoSplit
    /\ NoMain
    /\ NoSide

\* ---------------------------------------------------------------- caller
\* Faulty variant: add_request without its should_exit test.
add_request_rejects_never == FALSE

\* add_request: "if self.should_exit: return"
add_request_rejects == should_exit

\* add_request, first step: the caller reads should_exit.
add_request ==
    /\ cpc = "idle"
    /\ nextId <= MaxReq
    /\ \E t \in (IF kind = "tts" THEN Texts ELSE {NoText}) :
          IF add_request_rejects
          THEN cpc' = "idle" /\ creq' = NoReq
          ELSE cpc' = "add_put" /\ creq' = [id |-> nextId, text |-> t]
    /\ nextId' = nextId + 1
    /\ UNCHANGED <<otherVars, kind, use_streaming, request_queue, should_exit, is_processing, wpc,
                   workerLocals, pending, events, history>>

\* add_request, second step: self.request_queue.put(...)
add_request_put ==
    /\ cpc = "add_put"
    /\ request_queue' = Append(request_queue, creq)
    /\ accepted' = Append(accepted, creq.id)
    /\ creq' = NoReq
    /\ cpc' = IF kind = "tts" THEN "idle" ELSE "add_invoke"
    /\ UNCHANGED <<otherVars, kind, use_streaming, should_exit, is_processing, wpc, workerLocals, pending,
                   nextId, events, dispatched, inflight, finished, raised,
                   dropped, stopReturned, stopAt, ops>>

\* OpenAIWorker/OllamaWorker.add_request, last step:
\* QMetaObject.invokeMethod(self, "process_queue", Qt.QueuedConnection)
add_request_invoke ==
    /\ cpc = "add_invoke"
    /\ pending' = pending + 1
    /\ cpc' = "idle"
    /\ UNCHANGED <<otherVars, kind, use_streaming, request_queue, should_exit, is_processing, wpc,
                   workerLocals, creq, nextId, events, history>>

\* stop, first step: self.should_exit = True.  mainwindow.py calls stop once
\* on each worker and then drops its reference to it.
stop ==
    /\ cpc = "idle"
    /\ ~should_exit
    /\ should_exit' = TRUE
    /\ stopAt' = wpc
    /\ cpc' = "stop_clear"
    /\ UNCHANGED <<otherVars, kind, use_streaming, request_queue, is_processing, wpc,
                   workerLocals, pending, creq, nextId, events, accepted,
                   dispatched, inflight, finished, raised, dropped, stopReturned,
                   ops>>

\* Faulty variant: stop that sets the flag and leaves the queue as it is.
ClearQueue_keep(q) == q

\* with self.request_queue.mutex: self.request_queue.queue.clear()
ClearQueue(q) == <<>>

\* stop, second step: the queue is cleared and stop returns.
stop_clear ==
    /\ cpc = "stop_clear"
    /\ dropped' = dropped \cup Ids(request_queue)
    /\ request_queue' = ClearQueue(request_queue)
    /\ stopReturned' = TRUE
    /\ cpc' = "idle"
    /\ UNCHANGED <<otherVars, kind, use_streaming, should_exit, is_processing, wpc, workerLocals, pending,
                   creq, nextId, events, accepted, dispatched, inflight,
                   finished, raised, stopAt, ops>>

\* -------------------------------------------------------------- TTSWorker
\* Faulty variant: a LIFO get.
QueueGet_last(q) == <<q[Len(q)], SubSeq(q, 1, Len(q) - 1)>>

\* Queue.get(): the oldest item and the rest of the queue.
QueueGet(q) == <<Head(q), Tail(q)>>

\* One entry of ops: operation op of the sentence the worker is at.
Op(op, arg) == [req |-> cur.id, utt |-> sidx, op |-> op, arg |-> arg]

\* run: "while not self.should_exit:" and "if self.is_processing: ... continue"
TTS_run_while ==
    /\ kind = "tts"
    /\ wpc = "loop"
    /\ wpc' = IF should_exit THEN "exited"
              ELSE IF is_processing THEN "loop" ELSE "chk_empty"
    /\ UNCHANGED <<otherVars, kind, use_streaming, request_queue, should_exit, is_processing,
                   workerLocals, pending, callerVars, events, history>>

\* run: "if self.request_queue.empty(): self.msleep(100); continue"
TTS_run_empty ==
    /\ kind = "tts"
    /\ wpc = "chk_empty"
    /\ wpc' = IF request_queue = <<>> THEN "loop" ELSE "get"
    /\ UNCHANGED <<otherVars, kind, use_streaming, request_queue, should_exit, is_processing,
                   workerLocals, pending, callerVars, events, history>>

\* Faulty variant: the dequeued text is handed off and the loop goes on without
\* waiting for it.
TTS_run_get_async ==
    /\ kind = "tts"
    /\ wpc = "get"
    /\ request_queue # <<>>
    /\ request_queue' = Tail(request_queue)
    /\ inflight' = inflight \cup {Head(request_queue).id}
    /\ wpc' = "loop"
    /\ UNCHANGED <<otherVars, kind, use_streaming, should_exit, is_processing, workerLocals,
                   pending, callerVars, events, accepted, dispatched, finished,
                   raised, dropped, stopReturned, stopAt, ops>>

\* run: "text = self.request_queue.get()", which blocks while the queue is empty.
TTS_run_get ==
    /\ kind = "tts"
    /\ wpc = "get"
    /\ request_queue # <<>>
    /\ cur' = QueueGet(request_queue)[1]
    /\ request_queue' = QueueGet(request_queue)[2]
    /\ inflight' = inflight \cup {cur'.id}
    /\ wpc' = "set_proc"
    /\ UNCHANGED <<otherVars, kind, use_streaming, should_exit, is_processing, sentences, sidx, pending,
                   callerVars, events, accepted, dispatched, finished, raised,
                   dropped, stopReturned, stopAt, ops>>

\* run: "self.is_processing = True", then _process_text_to_a2f up to its loop:
\* "sentences = regex_sentence_split(text)" (use_nlp_split = False).
TTS_run_split ==
    /\ kind = "tts"
    /\ wpc = "set_proc"
    /\ is_processing' = TRUE
    /\ sentences' = regex_sentence_split(cur.text)
    /\ sidx' = 1
    /\ wpc' = "for"
    /\ UNCHANGED <<otherVars, kind, use_streaming, request_queue, should_exit, cur, pending, callerVars,
                   events, history>>

\* _process_text_to_a2f: "for idx, sentence in enumerate(sentences, start=1)":
\* the next sentence goes to self.tts_engine.synthesize.
TTS_synthesize_call ==
    /\ kind = "tts"
    /\ wpc = "for"
    /\ sidx <= Len(sentences)
    /\ wpc' = "in_synth"
    /\ dispatched' = IF sidx = 1 THEN Append(dispatched, cur.id) ELSE dispatched
    /\ ops' = Append(ops, Op("synthesize", sentences[sidx]))
    /\ UNCHANGED <<otherVars, kind, use_streaming, request_queue, should_exit, is_processing,
                   workerLocals, pending, callerVars, events, accepted,
                   inflight, finished, raised, dropped, stopReturned, stopAt>>

\* synthesize returns (audio_data, samplerate).
TTS_synthesize_return ==
    /\ kind = "tts"
    /\ wpc = "in_synth"
    /\ wpc' = "push"
    /\ UNCHANGED <<otherVars, kind, use_streaming, request_queue, should_exit, is_processing,
                   workerLocals, pending, callerVars, events, history>>

\* push_audio_track_stream / push_audio_track is entered and
\* "with grpc.insecure_channel(url) as channel" opens the session's channel.
TTS_push_call ==
    /\ kind = "tts"
    /\ wpc = "push"
    /\ wpc' = "in_push"
    /\ ops' = Append(ops, Op("open", <<>>))
    /\ UNCHANGED <<otherVars, kind, use_streaming, request_queue, should_exit, is_processing,
                   workerLocals, pending, callerVars, events, accepted,
                   dispatched, inflight, finished, raised, dropped,
                   stopReturned, stopAt>>

\* The requests a push sends: push_audio_track_stream's generator yields the
\* start marker and then the chunks; push_audio_track sends one PushAudioRequest
\* with the whole track.
PushRequests(streaming) ==
    IF streaming THEN <<Op("start_marker", <<>>), Op("chunks", <<>>)>>
    ELSE <<Op("track", <<>>)>>

\* Faulty variant: the push is handed to another thread and the loop moves on
\* while the session is still open.
TTS_push_return_detached ==
    /\ kind = "tts"
    /\ wpc = "in_push"
    /\ sidx' = sidx + 1
    /\ wpc' = "for"
    /\ UNCHANGED <<otherVars, kind, use_streaming, request_queue, should_exit, is_processing, cur,
                   sentences, pending, callerVars, events, history>>

\* stub.PushAudioStream(request_generator) / stub.PushAudio(request): the
\* requests have gone out and the server's response arrives; "if
\* response.success: print('SUCCESS') else: print(f'ERROR: ...')"; the with
\* block closes the channel, the push returns and the loop moves to the next
\* sentence.
TTS_push_return ==
    /\ kind = "tts"
    /\ wpc = "in_push"
    /\ \E success \in BOOLEAN :
          ops' = ops \o PushRequests(use_streaming)
                     \o <<Op(IF success THEN "success" ELSE "failure", <<>>),
                          Op("close", <<>>)>>
    /\ sidx' = sidx + 1
    /\ wpc' = "for"
    /\ UNCHANGED <<otherVars, kind, use_streaming, request_queue, should_exit, is_processing, cur,
                   sentences, pending, callerVars, events, accepted,
                   dispatched, inflight, finished, raised, dropped,
                   stopReturned, stopAt>>

\* Faulty variant: a sentence whose synthesis or delivery raised is skipped
\* and the loop goes on with the next one.
TTS_adapter_raise_skip ==
    /\ kind = "tts"
    /\ wpc \in {"in_synth", "in_push"}
    /\ raised' = raised \cup {cur.id}
    /\ ops' = IF wpc = "in_synth"
              THEN Append(ops, Op("synth_raise", <<>>))
              ELSE ops \o <<Op("rpc_error", <<>>), Op("close", <<>>)>>
    /\ sidx' = sidx + 1
    /\ wpc' = "for"
    /\ UNCHANGED <<otherVars, kind, use_streaming, request_queue, should_exit, is_processing,
                   cur, sentences, pending, callerVars, events, accepted,
                   dispatched, inflight, finished, dropped, stopReturned, stopAt>>

\* synthesize raises, or the stub call raises grpc.RpcError (the connection
\* cannot be established, or the call fails under way) and the with block
\* closes the channel: control leaves _process_text_to_a2f.
TTS_adapter_raise ==
    /\ kind = "tts"
    /\ wpc \in {"in_synth", "in_push"}
    /\ raised' = raised \cup {cur.id}
    /\ ops' = IF wpc = "in_synth"
              THEN Append(ops, Op("synth_raise", <<>>))
              ELSE ops \o <<Op("rpc_error", <<>>), Op("close", <<>>)>>
    /\ wpc' = "except"
    /\ UNCHANGED <<otherVars, kind, use_streaming, request_queue, should_exit, is_processing,
                   workerLocals, pending, callerVars, events, accepted,
                   dispatched, inflight, finished, dropped, stopReturned, stopAt>>

\* _process_text_to_a2f, after the loop: self.ttsFinished.emit(...)
TTS_emit_finished ==
    /\ kind = "tts"
    /\ wpc = "for"
    /\ sidx > Len(sentences)
    /\ events' = Append(events, [req |-> cur.id, ok |-> TRUE])
    /\ wpc' = "finally"
    /\ UNCHANGED <<otherVars, kind, use_streaming, request_queue, should_exit, is_processing,
                   workerLocals, pending, callerVars, history>>

\* Faulty variant: the exception is swallowed without ttsError.
TTS_run_except_silent ==
    /\ kind = "tts"
    /\ wpc = "except"
    /\ wpc' = "finally"
    /\ UNCHANGED <<otherVars, kind, use_streaming, request_queue, should_exit, is_processing,
                   workerLocals, pending, callerVars, events, history>>

\* run: "except Exception as e: ... self.ttsError.emit(str(e))"
TTS_run_except ==
    /\ kind = "tts"
    /\ wpc = "except"
    /\ events' = Append(events, [req |-> cur.id, ok |-> FALSE])
    /\ wpc' = "finally"
    /\ UNCHANGED <<otherVars, kind, use_streaming, request_queue, should_exit, is_processing,
                   workerLocals, pending, callerVars, history>>

\* Faulty variant: run without its "finally: self.is_processing = False".
TTS_run_finally_keeps_flag ==
    /\ kind = "tts"
    /\ wpc = "finally"
    /\ inflight' = inflight \ {cur.id}
    /\ finished' = finished \cup {cur.id}
    /\ cur' = NoReq
    /\ sentences' = <<>>
    /\ sidx' = 0
    /\ ops' = <<>>
    /\ wpc' = "loop"
    /\ UNCHANGED <<otherVars, kind, use_streaming, request_queue, should_exit, is_processing,
                   pending, callerVars, events, accepted, dispatched, raised,
                   dropped, stopReturned, stopAt>>

\* run: "finally: self.is_processing = False", and back to the loop head.
TTS_run_finally ==
    /\ kind = "tts"
    /\ wpc = "finally"
    /\ is_processing' = FALSE
    /\ inflight' = inflight \ {cur.id}
    /\ finished' = finished \cup {cur.id}
    /\ cur' = NoReq
    /\ sentences' = <<>>
    /\ sidx' = 0
    /\ ops' = <<>>
    /\ wpc' = "loop"
    /\ UNCHANGED <<otherVars, kind, use_streaming, request_queue, should_exit, pending, callerVars,
                   events, accepted, dispatched, raised, dropped, stopReturned, stopAt>>

TTSWorker ==
    \/ TTS_run_while \/ TTS_run_empty \/ TTS_run_get \/ TTS_run_split
    \/ TTS_synthesize_call \/ TTS_synthesize_return \/ TTS_push_call
    \/ TTS_push_return \/ TTS_adapter_raise \/ TTS_emit_finished
    \/ TTS_run_except \/ TTS_run_finally

\* ------------------------------------------- OpenAIWorker and OllamaWorker
\* The two classes share process_queue, add_request and stop line for line;
\* they differ in _process_request only (OpenAIWorker re-reads should_exit
\* after the engine call, OllamaWorker does not).
IsLLM == kind \in {"openai", "ollama"}

\* The worker thread's event loop takes the next queued process_queue invocation.
LLM_event_loop ==
    /\ IsLLM
    /\ wpc = "evloop"
    /\ pending > 0
    /\ pending' = pending - 1
    /\ wpc' = "pq_chk"
    /\ UNCHANGED <<otherVars, kind, use_streaming, request_queue, should_exit, is_processing,
                   workerLocals, callerVars, events, history>>

\* process_queue: "if self.is_processing or self.should_exit: return"
LLM_process_queue ==
    /\ IsLLM
    /\ wpc = "pq_chk"
    /\ wpc' = IF is_processing \/ should_exit THEN "evloop" ELSE "pq_empty"
    /\ UNCHANGED <<otherVars, kind, use_streaming, request_queue, should_exit, is_processing,
                   workerLocals, pending, callerVars, events, history>>

\* process_queue: "if self.request_queue.empty(): return", else
\* "self.is_processing = True"
LLM_process_queue_empty ==
    /\ IsLLM
    /\ wpc = "pq_empty"
    /\ IF request_queue = <<>>
       THEN wpc' = "evloop" /\ is_processing' = is_processing
       ELSE wpc' = "pq_get" /\ is_processing' = TRUE
    /\ UNCHANGED <<otherVars, kind, use_streaming, request_queue, should_exit, workerLocals, pending,
                   callerVars, events, history>>

\* process_queue: "... = self.request_queue.get()", which blocks while the
\* queue is empty.
LLM_process_queue_get ==
    /\ IsLLM
    /\ wpc = "pq_get"
    /\ request_queue # <<>>
    /\ cur' = QueueGet(request_queue)[1]
    /\ request_queue' = QueueGet(request_queue)[2]
    /\ inflight' = inflight \cup {cur'.id}
    /\ wpc' = "pr_try"
    /\ UNCHANGED <<otherVars, kind, use_streaming, should_exit, is_processing, sentences, sidx, pending,
                   callerVars, events, accepted, dispatched, finished, raised,
                   dropped, stopReturned, stopAt, ops>>

\* _process_request: "if self.should_exit: return", else the engine is called
\* (openai_client.chat.completions.create / ollama chat).
LLM_process_request ==
    /\ IsLLM
    /\ wpc = "pr_try"
    /\ IF should_exit
       THEN wpc' = "pr_finally" /\ dispatched' = dispatched
       ELSE wpc' = "in_call" /\ dispatched' = Append(dispatched, cur.id)
    /\ UNCHANGED <<otherVars, kind, use_streaming, request_queue, should_exit, is_processing,
                   workerLocals, pending, callerVars, events, accepted,
                   inflight, finished, raised, dropped, stopReturned, stopAt, ops>>

\* The engine call returns a response.
LLM_adapter_return ==
    /\ IsLLM
    /\ wpc = "in_call"
    /\ wpc' = IF kind = "openai" THEN "pr_chk" ELSE "pr_emit"
    /\ UNCHANGED <<otherVars, kind, use_streaming, request_queue, should_exit, is_processing,
                   workerLocals, pending, callerVars, events, history>>

\* The engine call raises.
LLM_adapter_raise ==
    /\ IsLLM
    /\ wpc = "in_call"
    /\ raised' = raised \cup {cur.id}
    /\ wpc' = "pr_except"
    /\ UNCHANGED <<otherVars, kind, use_streaming, request_queue, should_exit, is_processing,
                   workerLocals, pending, callerVars, events, accepted,
                   dispatched, inflight, finished, dropped, stopReturned, stopAt, ops>>

\* OpenAIWorker._process_request, after the call: "if self.should_exit: return"
OpenAI_check_after_call ==
    /\ kind = "openai"
    /\ wpc = "pr_chk"
    /\ wpc' = IF should_exit THEN "pr_finally" ELSE "pr_emit"
    /\ UNCHANGED <<otherVars, kind, use_streaming, request_queue, should_exit, is_processing,
                   workerLocals, pending, callerVars, events, history>>

\* _process_request: self.responseReady.emit(...)
LLM_emit_response ==
    /\ IsLLM
    /\ wpc = "pr_emit"
    /\ events' = Append(events, [req |-> cur.id, ok |-> TRUE])
    /\ wpc' = "pr_finally"
    /\ UNCHANGED <<otherVars, kind, use_streaming, request_queue, should_exit, is_processing,
                   workerLocals, pending, callerVars, history>>

\* Faulty variant: the failed request is reported and put back on the queue.
LLM_except_requeue ==
    /\ IsLLM
    /\ wpc = "pr_except"
    /\ events' = IF ~should_exit
                 THEN Append(events, [req |-> cur.id, ok |-> FALSE])
                 ELSE events
    /\ request_queue' = Append(request_queue, cur)
    /\ wpc' = "pr_finally"
    /\ UNCHANGED <<otherVars, kind, use_streaming, should_exit, is_processing, workerLocals,
                   pending, callerVars, history>>

\* _process_request: "except Exception as e: if not self.should_exit:
\* self.errorOccurred.emit(str(e))"
LLM_except ==
    /\ IsLLM
    /\ wpc = "pr_except"
    /\ events' = IF ~should_exit
                 THEN Append(events, [req |-> cur.id, ok |-> FALSE])
                 ELSE events
    /\ wpc' = "pr_finally"
    /\ UNCHANGED <<otherVars, kind, use_streaming, request_queue, should_exit, is_processing,
                   workerLocals, pending, callerVars, history>>

\* _process_request: "finally: self.is_processing = False" and
\* QMetaObject.invokeMethod(self, "process_queue", Qt.QueuedConnection);
\* process_queue returns to the event loop.
LLM_finally ==
    /\ IsLLM
    /\ wpc = "pr_finally"
    /\ is_processing' = FALSE
    /\ pending' = pending + 1
    /\ inflight' = inflight \ {cur.id}
    /\ finished' = finished \cup {cur.id}
    /\ cur' = NoReq
    /\ wpc' = "evloop"
    /\ UNCHANGED <<otherVars, kind, use_streaming, request_queue, should_exit, sentences, sidx,
                   callerVars, events, accepted, dispatched, raised, dropped,
                   stopReturned, stopAt, ops>>

LLMWorker ==
    \/ LLM_event_loop \/ LLM_process_queue \/ LLM_process_queue_empty
    \/ LLM_process_queue_get \/ LLM_process_request \/ LLM_adapter_return
    \/ LLM_adapter_raise \/ OpenAI_check_after_call \/ LLM_emit_response
    \/ LLM_except \/ LLM_finally

Caller == add_request \/ add_request_put \/ add_request_invoke \/ stop \/ stop_clear

Worker == TTSWorker \/ LLMWorker

Next == Caller \/ Worker

Spec == Init /\ [][Next]_vars

\* -------------------------------------------------- push_audio_track_stream
Min(a, b) == IF a <= b THEN a ELSE b

\* numpy float32 -> its four bytes, little-endian (IEEE 754 single precision).
Float32Bytes(x) ==
    CASE x = "0.0"   -> <<0, 0, 0, 0>>
      [] x = "0.5"   -> <<0, 0, 0, 63>>
      [] x = "-0.5"  -> <<0, 0, 0, 191>>
      [] x = "1.0"   -> <<0, 0, 128, 63>>
      [] x = "0.25"  -> <<0, 0, 128, 62>>
      [] x = "-0.25" -> <<0, 0, 128, 190>>
      [] x = "0.75"  -> <<0, 0, 64, 63>>
      [] x = "-1.0"  -> <<0, 0, 128, 191>>
      [] x = "2.0"   -> <<0, 0, 0, 64>>
      [] x = "-2.0"  -> <<0, 0, 0, 192>>

\* chunk.astype(np.float32).tobytes()
RECURSIVE ToBytes(_)
ToBytes(samples) ==
    IF samples = <<>> THEN <<>>
    ELSE Float32Bytes(Head(samples)) \o ToBytes(Tail(samples))

\* np.frombuffer(item.audio_data, dtype=np.float32), as the server decodes it.
RECURSIVE FromBytes(_)
FromBytes(bytes) ==
    IF Len(bytes) < 4 THEN <<>>
    ELSE <<CHOOSE x \in { Ramp[i] : i \in 1..Len(Ramp) } :
                Float32Bytes(x) = SubSeq(bytes, 1, 4)>>
         \o FromBytes(SubSeq(bytes, 5, Len(bytes)))

\* "chunk_size = samplerate // chunk_duration"
ChunkSize == samplerate \div chunk_duration

\* Faulty variant: a slice that takes its upper index too.
Slice_inclusive(a, lo, hi) == SubSeq(a, lo + 1, Min(hi + 1, Len(a)))

\* The Python slice a[lo : hi] (0-based, hi exclusive, clamped to the buffer).
Slice(a, lo, hi) == SubSeq(a, lo + 1, Min(hi, Len(a)))

\* One call of push_audio_track_stream, about to build its generator.
InitStream ==
    /\ kind = "tts"
    /\ use_streaming = TRUE
    /\ request_queue = <<>>
    /\ should_exit = FALSE
    /\ is_processing = FALSE
    /\ wpc = "in_push"
    /\ cur = NoReq
    /\ sentences = <<>>
    /\ sidx = 0
    /\ pending = 0
    /\ cpc = "idle"
    /\ creq = NoReq
    /\ nextId = 1
    /\ events = <<>>
    /\ accepted = <<>>
    /\ dispatched = <<>>
    /\ inflight = {}
    /\ finished = {}
    /\ raised = {}
    /\ dropped = {}
    /\ stopReturned = FALSE
    /\ stopAt = "none"
    /\ ops = <<>>
    /\ audio_data \in Buffers
    /\ samplerate \in SampleRates
    /\ chunk_duration \in ChunkDurations
    /\ block_until_playback_is_finished \in BOOLEAN
    /\ gpc = "start"
    /\ idx = 0
    /\ msgs = <<>>
    /\ sleeps = <<>>
    /\ NoServer
    /\ NoSplit
    /\ NoMain
    /\ NoSide

\* Faulty variant: the generator goes straight to the chunks.
Stream_start_marker_missing ==
    /\ gpc = "start"
    /\ gpc' = "chunks"
    /\ UNCHANGED <<stageVars, sideVars, serverVars, splitVars, mainVars, audio_data, samplerate, chunk_duration,
                   block_until_playback_is_finished, idx, msgs, sleeps>>

\* make_generator: "yield PushAudioStreamRequest(start_marker=start_marker)",
\* then "idx = 0".
Stream_start_marker ==
    /\ gpc = "start"
    /\ msgs' = Append(msgs,
                 [field |-> "start_marker",
                  samplerate |-> samplerate,
                  instance_name |-> InstanceName,
                  block_until_playback_is_finished |-> block_until_playback_is_finished])
    /\ idx' = 0
    /\ gpc' = "chunks"
    /\ UNCHANGED <<stageVars, sideVars, serverVars, splitVars, mainVars, audio_data, samplerate, chunk_duration,
                   block_until_playback_is_finished, sleeps>>

\* make_generator: one turn of "while idx < total_len": sleep, slice, advance,
\* yield the chunk's bytes.
Stream_chunk ==
    /\ gpc = "chunks"
    /\ idx < Len(audio_data)
    /\ sleeps' = Append(sleeps, Len(msgs))
    /\ LET chunk == Slice(audio_data, idx, idx + ChunkSize)
       IN msgs' = Append(msgs, [field |-> "audio_data", audio_data |-> ToBytes(chunk)])
    /\ idx' = idx + ChunkSize
    /\ UNCHANGED <<stageVars, sideVars, serverVars, splitVars, mainVars, audio_data, samplerate, chunk_duration,
                   block_until_playback_is_finished, gpc>>

\* The loop ends, the generator is exhausted: the client's send side is closed
\* and stub.PushAudioStream returns the server's response.
Stream_close ==
    /\ gpc = "chunks"
    /\ idx >= Len(audio_data)
    /\ gpc' = "closed"
    /\ UNCHANGED <<stageVars, sideVars, serverVars, splitVars, mainVars, audio_data, samplerate, chunk_duration,
                   block_until_playback_is_finished, idx, msgs, sleeps>>

NextStream == Stream_start_marker \/ Stream_chunk \/ Stream_close

SpecStream == InitStream /\ [][NextStream]_vars

\* -------------------------------------------------------- Audio2FaceServicer
\* The stage variables while no worker is being looked at.
NoWorker ==
    /\ kind = "tts"
    /\ use_streaming = FALSE
    /\ request_queue = <<>>
    /\ should_exit = FALSE
    /\ is_processing = FALSE
    /\ wpc = "none"
    /\ cur = NoReq
    /\ sentences = <<>>
    /\ sidx = 0
    /\ pending = 0
    /\ cpc = "none"
    /\ creq = NoReq
    /\ nextId = 1
    /\ events = <<>>
    /\ accepted = <<>>
    /\ dispatched = <<>>
    /\ inflight = {}
    /\ finished = {}
    /\ raised = {}
    /\ dropped = {}
    /\ stopReturned = FALSE
    /\ stopAt = "none"
    /\ ops = <<>>

\* A PushAudioStreamRequest carrying a start marker.
StartMarkerMessage ==
    [field |-> "start_marker",
     samplerate |-> 4,
     instance_name |-> InstanceName,
     block_until_playback_is_finished |-> TRUE]

\* The PushAudioStreamRequest messages a client may send: the start marker and
\* two audio messages of one sample each, told apart by their sample.
StreamMessages ==
    {StartMarkerMessage}
    \cup { [field |-> "audio_data", audio_data |-> ToBytes(<<x>>)] : x \in {"0.5", "1.0"} }

\* The message sequences of a streamed session, the empty one included.
RECURSIVE StreamSessions(_)
StreamSessions(n) ==
    IF n = 0 THEN {<<>>}
    ELSE StreamSessions(n - 1)
         \cup { Append(q, m) : q \in { x \in StreamSessions(n - 1) : Len(x) = n - 1 },
                               m \in StreamMessages }

\* The PushAudioRequest messages a client may send.
PushAudioRequests ==
    { [field |-> "request",
       audio_data |-> ToBytes(b),
       samplerate |-> 4,
       instance_name |-> InstanceName,
       block_until_playback_is_finished |-> TRUE] : b \in {<<>>, <<"0.5">>, <<"0.5", "1.0">>} }

CallbackNames == {"start", "chunk", "end"}

\* How a callback call may end: it returns, raises RuntimeError, or raises
\* another exception.
Outcomes == {"ok", "RuntimeError", "Exception"}

\* One PushAudio or PushAudioStream call arrives at a servicer built with any
\* choice of callbacks (each may be None).
InitServer ==
    /\ NoWorker
    /\ NoStream
    /\ NoSplit
    /\ NoMain
    /\ NoSide
    /\ rpc \in {"PushAudio", "PushAudioStream"}
    /\ session \in (IF rpc = "PushAudio"
                    THEN { <<r>> : r \in PushAudioRequests }
                    ELSE StreamSessions(MaxMsgs))
    /\ pos = 0
    /\ callbacks \in SUBSET CallbackNames
    /\ svpc = IF rpc = "PushAudio" THEN "start_cb" ELSE "first"
    /\ invoked = <<>>
    /\ responses = <<>>

\* Faulty variant: any first message is taken for a start marker.
HasField_any(item, name) == TRUE

\* item.HasField(name)
HasField(item, name) == item.field = name

\* item.audio_data: the bytes of an audio message, empty when the message
\* carries a start marker instead.
AudioData(item) == IF item.field = "start_marker" THEN <<>> ELSE item.audio_data

\* Faulty variant: a RuntimeError of a callback is swallowed.
OnOutcome_swallow(o) == IF o = "Exception" THEN "raise" ELSE "next"

\* "try: callback(...) except RuntimeError as e: return
\* PushAudioResponse(success=False, message=str(e))"; any other exception
\* leaves the handler.
OnOutcome(o) ==
    CASE o = "ok" -> "next"
      [] o = "RuntimeError" -> "return_false"
      [] OTHER -> "raise"

\* A callback is called with arg and ends with outcome o; on success the
\* handler goes on at position next.
Invoke(cb, arg, o, next) ==
    /\ invoked' = Append(invoked, [cb |-> cb, arg |-> arg, outcome |-> o])
    /\ svpc' = CASE OnOutcome(o) = "next" -> next
                 [] OnOutcome(o) = "return_false" -> "done"
                 [] OTHER -> "aborted"
    /\ responses' = CASE OnOutcome(o) = "return_false" ->
                            Append(responses, [success |-> FALSE])
                      [] OnOutcome(o) = "next" /\ next = "done" ->
                            Append(responses, [success |-> TRUE])
                      [] OTHER -> responses

\* The callback is None: nothing is called and the handler goes on at next.
Skip(next) ==
    /\ invoked' = invoked
    /\ svpc' = next
    /\ responses' = IF next = "done"
                    THEN Append(responses, [success |-> TRUE])
                    ELSE responses

\* PushAudioStream: "first_item = next(request_iterator)" (StopIteration when
\* the client sent nothing) and "if not first_item.HasField('start_marker'):
\* return PushAudioResponse(success=False, ...)".
PushAudioStream_first_item ==
    /\ svpc = "first"
    /\ IF pos >= Len(session)
       THEN /\ svpc' = "aborted"
            /\ UNCHANGED <<pos, responses>>
       ELSE /\ pos' = pos + 1
            /\ IF ~HasField(session[pos + 1], "start_marker")
               THEN /\ responses' = Append(responses, [success |-> FALSE])
                    /\ svpc' = "done"
               ELSE /\ responses' = responses
                    /\ svpc' = "start_cb"
    /\ UNCHANGED <<stageVars, sideVars, streamVars, splitVars, mainVars, rpc, session, callbacks, invoked>>

\* "if self._audio_start_callback is not None: try:
\* self._audio_start_callback(instance_name, samplerate) ..."
Servicer_audio_start_callback ==
    /\ svpc = "start_cb"
    /\ IF "start" \in callbacks
       THEN \E o \in Outcomes : Invoke("start", <<>>, o, "chunks")
       ELSE Skip("chunks")
    /\ UNCHANGED <<stageVars, sideVars, streamVars, splitVars, mainVars, rpc, session, pos, callbacks>>

\* PushAudioStream: one turn of "for item in request_iterator"; PushAudio: the
\* one call for the request's audio_data.  np.frombuffer decodes the bytes,
\* then "if self._push_chunk_callback is not None: try: ..."
Servicer_push_chunk_callback ==
    /\ svpc = "chunks"
    /\ pos < Len(session)
    /\ pos' = pos + 1
    /\ IF "chunk" \in callbacks
       THEN \E o \in Outcomes :
               Invoke("chunk", FromBytes(AudioData(session[pos + 1])), o, "chunks")
       ELSE Skip("chunks")
    /\ UNCHANGED <<stageVars, sideVars, streamVars, splitVars, mainVars, rpc, session, callbacks>>

\* The client has closed its side (the for loop ends): "if
\* self._audio_end_callback is not None: try: ..." and
\* "return PushAudioResponse(success=True, message='')".
Servicer_audio_end_callback ==
    /\ svpc = "chunks"
    /\ pos >= Len(session)
    /\ IF "end" \in callbacks
       THEN \E o \in Outcomes : Invoke("end", <<>>, o, "done")
       ELSE Skip("done")
    /\ UNCHANGED <<stageVars, sideVars, streamVars, splitVars, mainVars, rpc, session, pos, callbacks>>

NextServer ==
    \/ PushAudioStream_first_item
    \/ Servicer_audio_start_callback
    \/ Servicer_push_chunk_callback
    \/ Servicer_audio_end_callback

SpecServer == InitServer /\ [][NextServer]_vars

\* ---------------------------------------------- regex_sentence_split alone
\* The characters of the texts: letters, the three terminal marks, the two
\* markers and the blank.
Alphabet == {"a", "b"} \cup Punct \cup Markers \cup Space

\* Every text of at most n characters.
RECURSIVE TextsUpTo(_)
TextsUpTo(n) ==
    IF n = 0 THEN {<<>>}
    ELSE TextsUpTo(n - 1)
         \cup { Append(t, c) : t \in { x \in TextsUpTo(n - 1) : Len(x) = n - 1 },
                               c \in Alphabet }

\* regex_sentence_split is about to be called with some text.
InitSplit ==
    /\ NoWorker
    /\ NoStream
    /\ NoServer
    /\ NoMain
    /\ NoSide
    /\ split_text \in TextsUpTo(MaxTextLen)
    /\ split_result = <<>>
    /\ split_returned = FALSE

\* The call: "return sentences".
Split_call ==
    /\ ~split_returned
    /\ split_result' = regex_sentence_split(split_text)
    /\ split_returned' = TRUE
    /\ UNCHANGED <<stageVars, sideVars, streamVars, serverVars, mainVars, split_text>>

NextSplit == Split_call

SpecSplit == InitSplit /\ [][NextSplit]_vars

\* A worker thread that stays scheduled takes its next step, an engine or
\* network call in progress returns or raises, and a caller inside
\* add_request or stop finishes that call.
FairSpec ==
    /\ Spec
    /\ WF_vars(Worker)
    /\ WF_vars(add_request_put \/ add_request_invoke \/ stop_clear)

\* ------------------------------------------------------------ properties
\* The events emitted for request r, in order.
EventsOf(r) == SelectSeq(events, LAMBDA e : e.req = r)

\* How often r occurs in a sequence of ids.
Count(seq, r) == Cardinality({ i \in 1..Len(seq) : seq[i] = r })

\* The add_request calls made so far that returned without enqueuing.
Rejected == (nextId - 1) - Len(accepted) - (IF cpc = "add_put" THEN 1 ELSE 0)

\* C1 (single-flight): at every instant at most one request has been dequeued
\* by the worker and not yet finished.
C1_SingleFlight == Cardinality(inflight) <= 1

C1_Witness ==
    /\ Cardinality(inflight) = 1
    /\ request_queue # <<>>
    /\ wpc \in {"in_synth", "in_call"}

\* C2 (FIFO): as long as no call has failed and stop has not been called, the
\* i-th event emitted belongs to the i-th request that was enqueued.
C2_Fifo ==
    (~should_exit /\ raised = {}) =>
        /\ Len(events) <= Len(accepted)
        /\ \A i \in 1..Len(events) : events[i].req = accepted[i] /\ events[i].ok

C2_Witness == ~should_exit /\ raised = {} /\ Len(events) >= 3

\* C3 (stop terminates the TTS worker): once stop() has been called on
\* TTSWorker, run() eventually returns.
C3_StopExits == (kind = "tts" /\ should_exit) ~> (wpc = "exited")

C5_AddAfterStopNoOp ==
    [][(add_request /\ stopReturned) =>
          /\ cpc' = "idle"
          /\ UNCHANGED <<request_queue, is_processing, events, pending,
                         accepted, dispatched, inflight>>]_vars

C5_Witness == stopReturned /\ cpc = "idle" /\ Rejected > 0 /\ inflight # {}

\* C6 as stated (no silent drops): every request whose handling has finished
\* has exactly one result event, and failure events are in submission order.
C6_ExactlyOneEvent ==
    /\ \A r \in finished : Len(EventsOf(r)) = 1
    /\ \A i, j \in 1..Len(events) :
          (i < j /\ ~events[i].ok /\ ~events[j].ok) => events[i].req < events[j].req

\* C6 as amended: a request never has more than one result event; a finished
\* request has exactly one, except on OpenAIWorker/OllamaWorker after stop()
\* was called, where it may have none; events belong to dequeued requests
\* only, and failure events are in submission order.
C6_AtMostOneEvent ==
    /\ \A r \in 1..(nextId - 1) : Len(EventsOf(r)) <= 1
    /\ \A r \in finished : Len(EventsOf(r)) = 0 => (IsLLM /\ should_exit)
    /\ \A i \in 1..Len(events) : events[i].req \in inflight \cup finished
    /\ \A i, j \in 1..Len(events) :
          (i < j /\ ~events[i].ok /\ ~events[j].ok) => events[i].req < events[j].req

C6_Witness ==
    \E r1, r2 \in finished :
        /\ EventsOf(r1) = << [req |-> r1, ok |-> FALSE] >>
        /\ EventsOf(r2) = <<>>

\* C7 (the drain loop is live): on a worker that is never stopped, every
\* request on the queue is eventually dequeued and its handling finishes.
C7_Drain ==
    \A r \in 1..MaxReq :
        (r \in Ids(request_queue)) ~> (r \in finished \/ should_exit)

C7_Witness == ~should_exit /\ Cardinality(finished) >= 2 /\ request_queue = <<>>

\* C8 (adapter failure): a request whose engine or network call raised and
\* whose handling has finished was dispatched once, is not back on the queue
\* and, on a worker that was not stopped, has exactly one event, a failure;
\* the processing flag is false again once nothing is in flight, and the
\* worker only ever terminates because stop() was called.
C8_AdapterFailure ==
    /\ \A r \in raised \cap finished :
          /\ ~should_exit => EventsOf(r) = << [req |-> r, ok |-> FALSE] >>
          /\ r \notin Ids(request_queue)
          /\ Count(dispatched, r) = 1
    /\ (raised \cap finished # {} /\ inflight = {} /\ wpc # "pq_get") => ~is_processing
    /\ wpc = "exited" => should_exit

C8_Witness ==
    /\ ~should_exit
    /\ \E r \in raised \cap finished :
          \E r2 \in finished : r2 > r /\ r2 \notin raised

\* C9 (only the operation in progress is finished): when stop() is called on
\* TTSWorker while an engine call or a delivery session is in progress, the
\* worker starts no further engine call and no further delivery session.
C9_NoFurtherOperation ==
    [][(kind = "tts" /\ stopAt \in {"in_synth", "in_push"}) =>
          ~(wpc' \in {"in_synth", "in_push"} /\ wpc' # wpc)]_vars

\* C10 (streamed session framing): the messages of one push_audio_track_stream
\* call are one start marker (sample rate, instance name, blocking flag)
\* first, then only audio messages, the k-th of which decodes to the k-th
\* slice of ChunkSize samples of the buffer; when the client closes the stream
\* the slices cover the whole buffer and nothing follows them.
C10_StreamFraming ==
    /\ msgs # <<>> =>
          msgs[1] = [field |-> "start_marker",
                     samplerate |-> samplerate,
                     instance_name |-> InstanceName,
                     block_until_playback_is_finished |-> block_until_playback_is_finished]
    /\ gpc # "start" => msgs # <<>>
    /\ \A k \in 2..Len(msgs) :
          /\ msgs[k].field = "audio_data"
          /\ FromBytes(msgs[k].audio_data)
                = SubSeq(audio_data, (k - 2) * ChunkSize + 1,
                         Min((k - 1) * ChunkSize, Len(audio_data)))
          /\ (k - 2) * ChunkSize < Len(audio_data)
    /\ gpc = "closed" => (Len(msgs) - 1) * ChunkSize >= Len(audio_data)

\* An 8-sample buffer with chunk size 4: a start marker and two chunks of
\* 4 samples (16 bytes) each.
C10_Witness ==
    /\ gpc = "closed"
    /\ Len(audio_data) = 8
    /\ ChunkSize = 4
    /\ Len(msgs) = 3
    /\ Len(msgs[2].audio_data) = 16
    /\ Len(msgs[3].audio_data) = 16

\* --------------------------------------------- sessions of one TTS request
\* The operations recorded for utterance u of the request in hand, by name.
UttNames(u) ==
    LET b == SelectSeq(ops, LAMBDA o : o.utt = u)
    IN [i \in 1..Len(b) |-> b[i].op]

\* What one complete session shows: the channel is opened, the requests of
\* the delivery mode go out (in streamed mode a start marker of its own comes
\* first), the server answers, the channel is closed.
SessionNames(response) ==
    <<"open">>
    \o (IF use_streaming THEN <<"start_marker", "chunks">> ELSE <<"track">>)
    \o <<response, "close">>

\* An utterance that was synthesized and whose delivery call returned.
DeliveredBlocks ==
    { <<"synthesize">> \o SessionNames(r) : r \in {"success", "failure"} }

\* An utterance that is under way, or at which the request was abandoned.
OpenBlocks ==
    { <<"synthesize">>,
      <<"synthesize", "synth_raise">>,
      <<"synthesize", "open">>,
      <<"synthesize", "open", "rpc_error", "close">> }

\* C11 (per-utterance sessions in text order): the operations of a request
\* are those of its utterances one after the other in text order; every
\* utterance before the current one was synthesized and then delivered in a
\* session of its own that was opened, carried its own start marker in
\* streamed mode, and was closed before the next synthesis began; all traffic
\* belongs to the one request in flight, and when the request ends no session
\* is left open.
C11_SessionsInOrder ==
    kind = "tts" =>
        /\ ops # <<>> => cur.id \in inflight
        /\ \A i \in 1..Len(ops) :
              /\ ops[i].req = cur.id
              /\ ops[i].utt \in 1..Len(sentences)
              /\ ops[i].utt <= sidx
              /\ ops[i].op = "synthesize" => ops[i].arg = sentences[ops[i].utt]
        /\ ops # <<>> => ops[1].utt = 1
        /\ \A i \in 1..(Len(ops) - 1) :
              \/ ops[i + 1].utt = ops[i].utt
              \/ ops[i + 1].utt = ops[i].utt + 1 /\ ops[i].op = "close"
        /\ ops # <<>> =>
              LET last == ops[Len(ops)].utt
              IN /\ \A u \in 1..(last - 1) : UttNames(u) \in DeliveredBlocks
                 /\ UttNames(last) \in DeliveredBlocks \cup OpenBlocks
        /\ wpc \in {"for", "finally"} =>
              \A u \in 1..(sidx - 1) : UttNames(u) \in DeliveredBlocks

\* "a. b?" in streamed mode, after an earlier request: two sessions, "a."
\* first and "b?" second, each with its own start marker.
C11_Witness ==
    /\ use_streaming
    /\ wpc = "finally"
    /\ finished # {}
    /\ cur.text = <<"a", ".", " ", "b", "?">>
    /\ Len(ops) = 12
    /\ ops[1].arg = <<"a", ".">> /\ ops[3].op = "start_marker" /\ ops[6].op = "close"
    /\ ops[7].arg = <<"b", "?">> /\ ops[9].op = "start_marker" /\ ops[12].op = "close"

\* C12 (partial delivery on synthesis failure): when synthesize raises on
\* utterance k, every utterance before k was synthesized and delivered in a
\* complete session, nothing is synthesized or delivered after the failure,
\* no success event is emitted for the request and, when its handling ends,
\* its only event is one failure.
C12_PartialDelivery ==
    \A i \in 1..Len(ops) :
        ops[i].op = "synth_raise" =>
            /\ i = Len(ops)
            /\ wpc \in {"except", "finally"}
            /\ \A u \in 1..(ops[i].utt - 1) : UttNames(u) \in DeliveredBlocks
            /\ UttNames(ops[i].utt) = <<"synthesize", "synth_raise">>
            /\ \A n \in 1..Len(events) : events[n].req = cur.id => ~events[n].ok
            /\ wpc = "finally" => EventsOf(cur.id) = << [req |-> cur.id, ok |-> FALSE] >>

\* synthesize raised on the second of two utterances.
C12_Witness ==
    /\ wpc = "finally"
    /\ Len(sentences) = 2
    /\ ops # <<>>
    /\ ops[Len(ops)] = [req |-> cur.id, utt |-> 2, op |-> "synth_raise", arg |-> <<>>]
    /\ UttNames(1) \in DeliveredBlocks
    /\ EventsOf(cur.id) = << [req |-> cur.id, ok |-> FALSE] >>

\* C13 (a protocol failure is an adapter failure): after a push was answered
\* with success=false, or its call failed, no later utterance of the request
\* is synthesized or delivered, no success event is emitted for the request
\* and, when its handling ends, its only event is one failure.
C13_ProtocolFailure ==
    \A i \in 1..Len(ops) :
        ops[i].op \in {"failure", "rpc_error"} =>
            /\ \A j \in i..Len(ops) : ops[j].utt = ops[i].utt
            /\ \A n \in 1..Len(events) : events[n].req = cur.id => ~events[n].ok
            /\ wpc = "finally" => EventsOf(cur.id) = << [req |-> cur.id, ok |-> FALSE] >>

\* ------------------------------------------------- sessions at the servicer
\* The session opens as the protocol asks: PushAudio always does, a streamed
\* session does when its first message carries the start marker.
StartsWithMarker ==
    rpc = "PushAudio" \/ (session # <<>> /\ session[1].field = "start_marker")

\* The messages handed to the chunk callback when every one of them is: the
\* request of PushAudio, the messages after the first of a streamed session.
ChunkMessages ==
    IF rpc = "PushAudio" \/ session = <<>> THEN session ELSE Tail(session)

\* The arguments the chunk callback was called with, in call order.
ChunkArgs ==
    LET c == SelectSeq(invoked, LAMBDA v : v.cb = "chunk")
    IN [i \in 1..Len(c) |-> c[i].arg]

CallbackRank(cb) == CASE cb = "start" -> 1 [] cb = "chunk" -> 2 [] cb = "end" -> 3

\* Callbacks are invoked in the order start, chunks in arrival order, end:
\* start and end at most once, and the i-th chunk call gets the audio of the
\* i-th chunk message.
CallbackOrder ==
    /\ \A i, j \in 1..Len(invoked) :
          i < j => /\ CallbackRank(invoked[i].cb) <= CallbackRank(invoked[j].cb)
                   /\ invoked[j].cb # "start"
                   /\ invoked[i].cb # "end"
    /\ Len(ChunkArgs) <= Len(ChunkMessages)
    /\ \A i \in 1..Len(ChunkArgs) :
          ChunkArgs[i] = FromBytes(AudioData(ChunkMessages[i]))

\* No callback is invoked after one that failed.
NothingAfterFailure ==
    \A i \in 1..(Len(invoked) - 1) : invoked[i].outcome = "ok"

\* C14 (a streamed session must open with a start marker): when the first
\* message of a PushAudioStream session is not a start marker, the handler
\* returns one response with success=false and invokes no callback.
C14_RejectsMissingMarker ==
    (rpc = "PushAudioStream" /\ session # <<>> /\ session[1].field # "start_marker") =>
        /\ invoked = <<>>
        /\ svpc \in {"first", "done"}
        /\ svpc = "first" => responses = <<>>
        /\ svpc = "done" => responses = << [success |-> FALSE] >>

\* An audio message first, the start marker second, all callbacks set.
C14_Witness ==
    /\ rpc = "PushAudioStream"
    /\ Len(session) = 3
    /\ session[1].field = "audio_data"
    /\ session[2].field = "start_marker"
    /\ callbacks = CallbackNames
    /\ svpc = "done"
    /\ responses = << [success |-> FALSE] >>

ChunkMsgs == IF msgs = <<>> THEN <<>> ELSE Tail(msgs)

\* The samples of the k-th chunk, as the receiver decodes them.
ChunkSamples(k) == FromBytes(ChunkMsgs[k].audio_data)

\* The decoded chunks put end to end, in emission order.
RECURSIVE ConcatChunks(_)
ConcatChunks(k) == IF k = 0 THEN <<>> ELSE ConcatChunks(k - 1) \o ChunkSamples(k)

RECURSIVE SumChunkLengths(_)
SumChunkLengths(k) == IF k = 0 THEN 0 ELSE SumChunkLengths(k - 1) + Len(ChunkSamples(k))

\* C16 (chunking): with chunk size C > 0 the chunks emitted so far, put end
\* to end, are the part of the buffer read so far; when the sender is done
\* there are ceil(N / C) of them, all of length C except that the last has
\* length N mod C when that is not zero, their lengths sum to N and together
\* they are the buffer.
C16_Chunking ==
    (gpc \in {"chunks", "closed"} /\ ChunkSize > 0) =>
        LET N == Len(audio_data)
            C == ChunkSize
            k == Len(ChunkMsgs)
        IN /\ ConcatChunks(k) = SubSeq(audio_data, 1, Min(idx, N))
           /\ \A i \in 1..(k - 1) : Len(ChunkSamples(i)) = C
           /\ gpc = "closed" =>
                 /\ k = (N + C - 1) \div C
                 /\ k > 0 => Len(ChunkSamples(k)) = (IF N % C = 0 THEN C ELSE N % C)
                 /\ SumChunkLengths(k) = N
                 /\ ConcatChunks(k) = audio_data

\* Seven samples in chunks of two: four chunks, the last of one sample.
C16_Witness ==
    /\ gpc = "closed"
    /\ Len(audio_data) = 7
    /\ ChunkSize = 2
    /\ Len(ChunkMsgs) = 4
    /\ ChunkSamples(4) = <<audio_data[7]>>

\* C17 (pacing): every pacing sleep comes after a chunk has been emitted,
\* never before the first chunk, and a finished session of k >= 1 chunks has
\* slept k - 1 times.
C17_Pacing ==
    /\ \A i \in 1..Len(sleeps) : sleeps[i] >= 2
    /\ (gpc = "closed" /\ Len(ChunkMsgs) >= 1) => Len(sleeps) = Len(ChunkMsgs) - 1

\* ------------------------------------------------- the splitter's utterances
\* A text without blanks and markers: what it says.
Content(t) == SelectSeq(t, LAMBDA c : c \notin Markers \cup Space)

\* The utterances of a list put end to end.
RECURSIVE Flatten(_)
Flatten(list) == IF list = <<>> THEN <<>> ELSE Head(list) \o Flatten(Tail(list))

\* a can be got from b by leaving characters out.
RECURSIVE IsSubsequence(_, _)
IsSubsequence(a, b) ==
    IF a = <<>> THEN TRUE
    ELSE IF b = <<>> THEN FALSE
    ELSE IF Head(a) = Head(b) THEN IsSubsequence(Tail(a), Tail(b))
    ELSE IsSubsequence(a, Tail(b))

HasPunct(t) == \E i \in 1..Len(t) : t[i] \in Punct

\* C18 (never zero utterances for non-empty input): for a text that is not
\* empty after trimming the splitter returns at least one utterance, each
\* non-empty after trimming, in input order, and a text without '.', '!' and
\* '?' comes back whole, trimmed, as the one utterance.
C18_NeverEmpty ==
    (split_returned /\ Strip(split_text) # <<>>) =>
        /\ Len(split_result) >= 1
        /\ \A i \in 1..Len(split_result) : Strip(split_result[i]) # <<>>
        /\ IsSubsequence(Content(Flatten(split_result)), Content(split_text))
        /\ ~HasPunct(split_text) =>
              /\ Len(split_result) = 1
              /\ Content(split_result[1]) = Content(split_text)

\* C19 (content preservation): the utterances put end to end say what the
\* text says, blanks and markers aside; nothing of the text is lost.
C19_ContentPreserved ==
    split_returned => Content(Flatten(split_result)) = Content(split_text)

\* C20 (output shape): every utterance returned is free of '#' and '*', is a
\* non-empty trimmed fragment without terminal marks followed by exactly one
\* terminal mark, and the utterances follow the text's order.
C20_OutputShape ==
    split_returned =>
        /\ \A i \in 1..Len(split_result) :
              LET u == split_result[i]
                  fragment == SubSeq(u, 1, Len(u) - 1)
              IN /\ \A n \in 1..Len(u) : u[n] \notin Markers
                 /\ Len(u) >= 2
                 /\ u[Len(u)] \in Punct
                 /\ ~HasPunct(fragment)
                 /\ Strip(fragment) = fragment
        /\ IsSubsequence(Content(Flatten(split_result)), Content(split_text))

\* "#a.b" gives "a." and drops the marker; "a.b?" gives "a." and "b?".
C20_Witness ==
    /\ split_returned
    /\ \/ split_text = <<"#", "a", ".", "b">> /\ split_result = << <<"a", ".">> >>
       \/ split_text = <<"a", ".", "b", "?">>
             /\ split_result = << <<"a", ".">>, <<"b", "?">> >>

\* ================================================================ MainWindow
\* The coordinator: MainWindow's handlers run on the GUI thread, one at a
\* time; the recognition thread, the completion worker's thread and the
\* synthesis worker thread run beside it.  The workers are taken here at the
\* grain of one request (their inner steps are the stage model above).
\* Signals that only lead to a log_info line (ttsFinished, ttsError's box,
\* the log lines of the handlers) are left out.

\* How many user actions and how many audio segments a run has.
MaxClicks == 2
MaxSegments == 2

\* setup_ui: the items of the combo boxes.
LLMChoices == {"OpenAI", "LLAMA"}
TTSEngineChoices == {"Google", "Coqui", "VoiceX"}
RecognizerChoices == {"Google", "Whisper"}

\* The engines that exist: GoogleTTSEngine and CoquiTTSEngine.
SupportedTTSEngines == {"Google", "Coqui"}

\* What the recognizer hears and what the completion engine answers.
Utterances == {"hi"}
Replies == {"yes.", "no."}

\* The text WhisperTranscriptionThread.run emits from its except clause.
ErrorText == "Error: e"

Msg(role, content) == [role |-> role, content |-> content]

\* update_system_prompt's message and allClear's.
DeveloperMessage == Msg("developer", "prompt")
SystemMessage == Msg("system", "You are a helpful assistant.")

\* One step of a handler: op is the step, fn the function it belongs to and
\* arg that function's argument.
Step(op, fn, arg) == [op |-> op, fn |-> fn, arg |-> arg]

\* MainWindow after __init__: setup_ui has filled the combos, shown the group
\* of the first LLM choice and called update_system_prompt; no worker exists.
InitMain ==
    /\ NoWorker
    /\ NoStream
    /\ NoServer
    /\ NoSplit
    /\ NoSide
    /\ context = <<DeveloperMessage>>
    /\ llm_worker = "None"
    /\ tts_worker = "None"
    /\ transcription_thread = "None"
    /\ ui = [LLMChocie |-> "OpenAI", ttsEngineCombo |-> "Google",
             recognizerMBOX |-> "Google", openai_group |-> TRUE,
             llama_group |-> FALSE]
    /\ llm = NoLLM
    /\ tts = NoTTS
    /\ asr = NoASR
    /\ gui_events = <<>>
    /\ ui_todo = <<>>
    /\ clicks = 0
    /\ segments = 0
    /\ requests = <<>>
    /\ tts_emitted = <<>>
    /\ surfaced = <<>>
    /\ asr_log = [recognized |-> 0, failed |-> 0, emitted |-> 0]

workerRefs == <<llm_worker, tts_worker, transcription_thread>>
threads == <<llm, tts, asr>>
mainHistory == <<requests, tts_emitted, surfaced, asr_log>>

\* ------------------------------------------------------- handler entries
\* allStop: stop_asr(); stop_tts(); stop_llm()
allStopSteps ==
    <<Step("stop_asr", "allStop", ""), Step("stop_tts", "allStop", ""),
      Step("stop_llm", "allStop", "")>>

\* Faulty variant: the new worker is created without stopping the current one.
switch_llm_workerSteps_nostop(llm_choice) ==
    <<Step("start_llm", "switch_llm_worker", llm_choice)>>

\* switch_llm_worker(llm_choice): stop_llm(), then the branch of the choice.
switch_llm_workerSteps(llm_choice) ==
    <<Step("stop_llm", "switch_llm_worker", llm_choice),
      Step("start_llm", "switch_llm_worker", llm_choice)>>

\* start_asr: stop_asr(), then the thread of the chosen recognizer.
start_asrSteps ==
    <<Step("stop_asr", "start_asr", ""), Step("start_asr", "start_asr", "")>>

\* start_tts: stop_tts(), then a TTSWorker with the chosen engine.
start_ttsSteps ==
    <<Step("stop_tts", "start_tts", ""), Step("start_tts", "start_tts", "")>>

\* The user may act while the GUI thread is in its event loop.
MayClick == ui_todo = <<>> /\ clicks < MaxClicks

\* allStart: allStop(); switch_llm_worker(LLMChocie.currentText());
\* start_asr(); start_tts()
allStart ==
    /\ MayClick
    /\ clicks' = clicks + 1
    /\ ui_todo' = allStopSteps \o switch_llm_workerSteps(ui.LLMChocie)
                    \o start_asrSteps \o start_ttsSteps
    /\ UNCHANGED <<stageVars, sideVars, streamVars, serverVars, splitVars, context, workerRefs,
                   ui, threads, gui_events, segments, mainHistory>>

allStop ==
    /\ MayClick
    /\ clicks' = clicks + 1
    /\ ui_todo' = allStopSteps
    /\ UNCHANGED <<stageVars, sideVars, streamVars, serverVars, splitVars, context, workerRefs,
                   ui, threads, gui_events, segments, mainHistory>>

\* allClear: allStop(), then the resets.
allClear ==
    /\ MayClick
    /\ clicks' = clicks + 1
    /\ ui_todo' = Append(allStopSteps, Step("reset", "allClear", ""))
    /\ UNCHANGED <<stageVars, sideVars, streamVars, serverVars, splitVars, context, workerRefs,
                   ui, threads, gui_events, segments, mainHistory>>

\* switch_llm_worker is the slot of LLMChocie.currentTextChanged: the user
\* picks the other item of the combo.
switch_llm_worker ==
    /\ MayClick
    /\ clicks' = clicks + 1
    /\ \E llm_choice \in LLMChoices \ {ui.LLMChocie} :
          /\ ui' = [ui EXCEPT !.LLMChocie = llm_choice]
          /\ ui_todo' = switch_llm_workerSteps(llm_choice)
    /\ UNCHANGED <<stageVars, sideVars, streamVars, serverVars, splitVars, context, workerRefs,
                   threads, gui_events, segments, mainHistory>>

\* The user picks an item of ttsEngineCombo or of recognizerMBOX; start_tts
\* and start_asr read the combos when they run.
ComboSelect ==
    /\ MayClick
    /\ clicks' = clicks + 1
    /\ \/ \E e \in TTSEngineChoices \ {ui.ttsEngineCombo} :
             ui' = [ui EXCEPT !.ttsEngineCombo = e]
       \/ \E r \in RecognizerChoices \ {ui.recognizerMBOX} :
             ui' = [ui EXCEPT !.recognizerMBOX = r]
    /\ UNCHANGED <<stageVars, sideVars, streamVars, serverVars, splitVars, context, workerRefs,
                   threads, gui_events, ui_todo, segments, mainHistory>>

\* ------------------------------------------------------ lists are objects
\* A Python list is shared by everything that holds a reference to it.
\* list.append on self.context is seen through every request that was given
\* that same list.
Touch(r, m) == IF r.shares THEN [r EXCEPT !.messages = Append(@, m)] ELSE r

AppendInPlace(w, m) ==
    [w EXCEPT !.queue = [i \in 1..Len(@) |-> Touch(@[i], m)],
              !.cur = Touch(@, m)]

\* "self.context = [...]" makes self.context refer to a new list: requests
\* holding the old one no longer share it.
Rebind(w) ==
    [w EXCEPT !.queue = [i \in 1..Len(@) |-> [@[i] EXCEPT !.shares = FALSE]],
              !.cur = [@ EXCEPT !.shares = FALSE]]

\* update_system_prompt (slot of systemPromptEdit.textChanged): the context
\* becomes the one developer message.
update_system_prompt ==
    /\ MayClick
    /\ clicks' = clicks + 1
    /\ context' = <<DeveloperMessage>>
    /\ llm' = Rebind(llm)
    /\ UNCHANGED <<stageVars, sideVars, streamVars, serverVars, splitVars, workerRefs, ui, tts,
                   asr, gui_events, ui_todo, segments, mainHistory>>

\* --------------------------------------------------- steps of the handlers
AtStep(op) == ui_todo # <<>> /\ Head(ui_todo).op = op

\* The step at hand becomes the wait that follows it.
Waiting(op) == <<[Head(ui_todo) EXCEPT !.op = op]>> \o Tail(ui_todo)

\* stop_asr: "if self.transcription_thread: self.transcription_thread.stop()";
\* the thread's stop sets running = False and then waits for run to return.
stop_asr ==
    /\ AtStep("stop_asr")
    /\ IF transcription_thread = "None"
       THEN asr' = asr /\ ui_todo' = Tail(ui_todo)
       ELSE asr' = [asr EXCEPT !.running = FALSE] /\ ui_todo' = Waiting("wait_asr")
    /\ UNCHANGED <<stageVars, sideVars, streamVars, serverVars, splitVars, context, workerRefs,
                   ui, llm, tts, gui_events, clicks, segments, mainHistory>>

\* stop_asr: wait() returns once run has returned; "self.transcription_thread = None"
stop_asr_wait ==
    /\ AtStep("wait_asr")
    /\ asr.pc = "exited"
    /\ transcription_thread' = "None"
    /\ asr' = NoASR
    /\ ui_todo' = Tail(ui_todo)
    /\ UNCHANGED <<stageVars, sideVars, streamVars, serverVars, splitVars, context, llm_worker,
                   tts_worker, ui, llm, tts, gui_events, clicks, segments,
                   mainHistory>>

\* stop_tts: "if self.tts_worker: self.tts_worker.stop()" (the flag is set and
\* the queue cleared), quit(), wait()
stop_tts ==
    /\ AtStep("stop_tts")
    /\ IF tts_worker = "None"
       THEN tts' = tts /\ ui_todo' = Tail(ui_todo)
       ELSE /\ tts' = [tts EXCEPT !.should_exit = TRUE, !.queue = <<>>]
            /\ ui_todo' = Waiting("wait_tts")
    /\ UNCHANGED <<stageVars, sideVars, streamVars, serverVars, splitVars, context, workerRefs,
                   ui, llm, asr, gui_events, clicks, segments, mainHistory>>

\* stop_tts: wait() returns once run has returned; "self.tts_worker = None"
stop_tts_wait ==
    /\ AtStep("wait_tts")
    /\ tts.pc = "exited"
    /\ tts_worker' = "None"
    /\ tts' = NoTTS
    /\ ui_todo' = Tail(ui_todo)
    /\ UNCHANGED <<stageVars, sideVars, streamVars, serverVars, splitVars, context, llm_worker,
                   transcription_thread, ui, llm, asr, gui_events, clicks,
                   segments, mainHistory>>

\* stop_llm: "if self.llm_worker: self.llm_worker.stop(); self.llm_worker =
\* None", then "if self.llm_worker_thread: quit(); wait()"
stop_llm ==
    /\ AtStep("stop_llm")
    /\ IF llm_worker = "None"
       THEN llm' = llm /\ llm_worker' = llm_worker /\ ui_todo' = Tail(ui_todo)
       ELSE /\ llm' = [llm EXCEPT !.should_exit = TRUE, !.queue = <<>>]
            /\ llm_worker' = "None"
            /\ ui_todo' = Waiting("wait_llm")
    /\ UNCHANGED <<stageVars, sideVars, streamVars, serverVars, splitVars, context, tts_worker,
                   transcription_thread, ui, tts, asr, gui_events, clicks,
                   segments, mainHistory>>

\* stop_llm: wait() returns once the thread's event loop has ended, which is
\* when the slot it is in has returned; "self.llm_worker_thread = None"
stop_llm_wait ==
    /\ AtStep("wait_llm")
    /\ llm.pc = "idle"
    /\ llm' = NoLLM
    /\ ui_todo' = Tail(ui_todo)
    /\ UNCHANGED <<stageVars, sideVars, streamVars, serverVars, splitVars, context, workerRefs,
                   ui, tts, asr, gui_events, clicks, segments, mainHistory>>

\* A worker start_llm_openai / start_llm_ollama creates, on its new thread.
NewLLM(class) == [NoLLM EXCEPT !.kind = class]

\* switch_llm_worker after stop_llm(): the branch of llm_choice.
switch_llm_worker_branch ==
    /\ AtStep("start_llm")
    /\ LET llm_choice == Head(ui_todo).arg IN
          IF llm_choice = "OpenAI"
          THEN /\ ui' = [ui EXCEPT !.openai_group = TRUE, !.llama_group = FALSE]
               /\ llm_worker' = "OpenAIWorker"
               /\ llm' = NewLLM("OpenAIWorker")
               /\ surfaced' = surfaced
          ELSE IF llm_choice = "LLAMA"
          THEN /\ ui' = [ui EXCEPT !.openai_group = FALSE, !.llama_group = TRUE]
               /\ llm_worker' = "OllamaWorker"
               /\ llm' = NewLLM("OllamaWorker")
               /\ surfaced' = surfaced
          ELSE /\ surfaced' = Append(surfaced, "Unsupported LLM choice")
               /\ UNCHANGED <<ui, llm_worker, llm>>
    /\ ui_todo' = Tail(ui_todo)
    /\ UNCHANGED <<stageVars, sideVars, streamVars, serverVars, splitVars, context, tts_worker,
                   transcription_thread, tts, asr, gui_events, clicks, segments,
                   requests, tts_emitted, asr_log>>

\* start_asr after stop_asr(): the thread of recognizerMBOX.currentText() is
\* created and started.
start_asr ==
    /\ AtStep("start_asr")
    /\ LET asr_choice == ui.recognizerMBOX IN
          IF asr_choice \in {"Whisper", "Google"}
          THEN /\ transcription_thread' = asr_choice
               /\ asr' = [kind |-> asr_choice, running |-> TRUE, pc |-> "starting"]
          ELSE UNCHANGED <<transcription_thread, asr>>
    /\ ui_todo' = Tail(ui_todo)
    /\ UNCHANGED <<stageVars, sideVars, streamVars, serverVars, splitVars, context, llm_worker,
                   tts_worker, ui, llm, tts, gui_events, clicks, segments,
                   mainHistory>>

\* start_tts: "if engine_choice == 'Google': tts_engine = GoogleTTSEngine()
\* else: tts_engine = CoquiTTSEngine()"
EngineFor(engine_choice) ==
    IF engine_choice = "Google" THEN "GoogleTTSEngine" ELSE "CoquiTTSEngine"

\* start_tts after stop_tts(): a TTSWorker with the engine is created and
\* started.
start_tts ==
    /\ AtStep("start_tts")
    /\ tts_worker' = "TTSWorker"
    /\ tts' = [NoTTS EXCEPT !.engine = EngineFor(ui.ttsEngineCombo),
                            !.choice = ui.ttsEngineCombo, !.pc = "idle"]
    /\ ui_todo' = Tail(ui_todo)
    /\ UNCHANGED <<stageVars, sideVars, streamVars, serverVars, splitVars, context, llm_worker,
                   transcription_thread, ui, llm, asr, gui_events, clicks,
                   segments, mainHistory>>

\* allClear after allStop(): the context becomes the one system message and
\* the combos go back to their first items; LLMChocie.setCurrentIndex(0)
\* fires currentTextChanged, hence switch_llm_worker, when it changes the item.
allClear_reset ==
    /\ AtStep("reset")
    /\ context' = <<SystemMessage>>
    /\ llm' = Rebind(llm)
    /\ ui' = [ui EXCEPT !.ttsEngineCombo = "Google", !.recognizerMBOX = "Google",
                        !.LLMChocie = "OpenAI"]
    /\ ui_todo' = IF ui.LLMChocie # "OpenAI"
                  THEN switch_llm_workerSteps("OpenAI") \o Tail(ui_todo)
                  ELSE Tail(ui_todo)
    /\ UNCHANGED <<stageVars, sideVars, streamVars, serverVars, splitVars, workerRefs, tts, asr,
                   gui_events, clicks, segments, mainHistory>>

\* ------------------------------------------------- slots on the GUI thread
\* The GUI thread's event loop takes the oldest queued slot invocation.
AtEvent(sig) == ui_todo = <<>> /\ gui_events # <<>> /\ Head(gui_events).sig = sig

Event(sig, arg) == [sig |-> sig, arg |-> arg]

\* Faulty variant: the request is given self.context itself.
RequestFor_context(user_input) ==
    [id |-> Len(requests) + 1, messages |-> context, shares |-> TRUE]

\* send_to_llm: "context = [{'role': 'user', 'content': user_input}]" (and the
\* same under the name messages for the Ollama worker): a new list.
RequestFor(user_input) ==
    [id |-> Len(requests) + 1, messages |-> <<Msg("user", user_input)>>,
     shares |-> FALSE]

\* handle_transcription(user_input): send_to_llm(user_input), which calls
\* self.llm_worker.add_request(...) when one of the two groups is visible;
\* with self.llm_worker None that call raises AttributeError.  self.context
\* is left as it is.
handle_transcription ==
    /\ AtEvent("transcription")
    /\ gui_events' = Tail(gui_events)
    /\ context' = context
    /\ LET user_input == Head(gui_events).arg
           request == RequestFor(user_input)
       IN IF ~(ui.openai_group \/ ui.llama_group)
          THEN UNCHANGED <<llm, requests, surfaced>>
          ELSE IF llm_worker = "None"
          THEN /\ surfaced' = Append(surfaced, "AttributeError")
               /\ UNCHANGED <<llm, requests>>
          ELSE /\ llm' = IF llm.should_exit THEN llm
                         ELSE [llm EXCEPT !.queue = Append(@, request)]
               /\ requests' = IF llm.should_exit THEN requests
                              ELSE Append(requests,
                                          [messages |-> request.messages,
                                           user_input |-> user_input,
                                           context |-> context'])
               /\ surfaced' = surfaced
    /\ UNCHANGED <<stageVars, sideVars, streamVars, serverVars, splitVars, workerRefs, ui, tts,
                   asr, ui_todo, clicks, segments, tts_emitted, asr_log>>

\* display_llm_response(response): self.context.append(assistant message) and
\* self.tts_request_signal.emit(response); the signal is connected to
\* add_request of the TTSWorker start_tts created, which puts the text on its
\* queue unless should_exit is set.
display_llm_response ==
    /\ AtEvent("responseReady")
    /\ gui_events' = Tail(gui_events)
    /\ LET response == Head(gui_events).arg IN
          /\ context' = Append(context, Msg("assistant", response))
          /\ llm' = AppendInPlace(llm, Msg("assistant", response))
          /\ tts_emitted' = Append(tts_emitted, response)
          /\ tts' = IF tts_worker # "None" /\ ~tts.should_exit
                    THEN [tts EXCEPT !.queue = Append(@, response)]
                    ELSE tts
    /\ UNCHANGED <<stageVars, sideVars, streamVars, serverVars, splitVars, workerRefs, ui, asr,
                   ui_todo, clicks, segments, requests, surfaced, asr_log>>

\* Faulty variant: the error text is treated as a reply.
display_llm_error_as_reply ==
    /\ AtEvent("errorOccurred")
    /\ gui_events' = Tail(gui_events)
    /\ context' = Append(context, Msg("assistant", Head(gui_events).arg))
    /\ tts_emitted' = Append(tts_emitted, Head(gui_events).arg)
    /\ surfaced' = Append(surfaced, "LLM Error")
    /\ UNCHANGED <<stageVars, sideVars, streamVars, serverVars, splitVars, workerRefs,
                   ui, threads, ui_todo, clicks, segments, requests, asr_log>>

\* display_llm_error(error_message): QMessageBox.critical and log_error.
display_llm_error ==
    /\ AtEvent("errorOccurred")
    /\ gui_events' = Tail(gui_events)
    /\ surfaced' = Append(surfaced, "LLM Error")
    /\ UNCHANGED <<stageVars, sideVars, streamVars, serverVars, splitVars, context, workerRefs,
                   ui, threads, ui_todo, clicks, segments, requests, tts_emitted,
                   asr_log>>

\* ------------------------------------------------------ recognition thread
\* run up to listen_in_background: the microphone is opened and, for Whisper,
\* the model loaded.  When that raises, WhisperTranscriptionThread logs the
\* error and emits "Error: ..." on transcription_signal, which is connected
\* to MainWindow.transcription_signal; GoogleASRTranscriptionThread logs it
\* and calls self.stop().
Recognition_setup ==
    /\ asr.pc = "starting"
    /\ \E ok \in BOOLEAN :
          IF ok
          THEN /\ asr' = [asr EXCEPT !.pc = "listening"]
               /\ UNCHANGED <<gui_events, surfaced, asr_log>>
          ELSE /\ surfaced' = Append(surfaced, "ASR Error")
               /\ IF asr.kind = "Whisper"
                  THEN /\ gui_events' = Append(gui_events, Event("transcription", ErrorText))
                       /\ asr_log' = [asr_log EXCEPT !.failed = @ + 1, !.emitted = @ + 1]
                       /\ asr' = [asr EXCEPT !.pc = "exited"]
                  ELSE /\ gui_events' = gui_events
                       /\ asr_log' = [asr_log EXCEPT !.failed = @ + 1]
                       /\ asr' = [asr EXCEPT !.running = FALSE, !.pc = "exited"]
    /\ UNCHANGED <<stageVars, sideVars, streamVars, serverVars, splitVars, context, workerRefs,
                   ui, llm, tts, ui_todo, clicks, segments, requests, tts_emitted>>

\* record_callback(_, audio), called by the listener for each segment: "if not
\* self.running: return"; a non-empty text is emitted on transcription_signal.
\* A failure inside the Google callback is logged; one inside the Whisper
\* callback leaves the callback as an exception and ends the listener.
Recognition_record_callback ==
    /\ asr.pc = "listening"
    /\ asr.running
    /\ segments < MaxSegments
    /\ segments' = segments + 1
    /\ \/ \E text \in Utterances :
             /\ gui_events' = Append(gui_events, Event("transcription", text))
             /\ asr_log' = [asr_log EXCEPT !.recognized = @ + 1, !.emitted = @ + 1]
             /\ UNCHANGED <<asr, surfaced>>
       \/ /\ asr_log' = [asr_log EXCEPT !.failed = @ + 1]
          /\ IF asr.kind = "Google"
             THEN surfaced' = Append(surfaced, "ASR Error") /\ asr' = asr
             ELSE surfaced' = surfaced /\ asr' = [asr EXCEPT !.pc = "listener_ended"]
          /\ gui_events' = gui_events
    /\ UNCHANGED <<stageVars, sideVars, streamVars, serverVars, splitVars, context, workerRefs,
                   ui, llm, tts, ui_todo, clicks, requests, tts_emitted>>

\* run: "while self.running: self.msleep(100)" ends and run returns.
Recognition_exit ==
    /\ asr.pc \in {"listening", "listener_ended"}
    /\ ~asr.running
    /\ asr' = [asr EXCEPT !.pc = "exited"]
    /\ UNCHANGED <<stageVars, sideVars, streamVars, serverVars, splitVars, context, workerRefs,
                   ui, llm, tts, gui_events, ui_todo, clicks, segments,
                   mainHistory>>

\* ------------------------------------------------------- completion worker
\* Faulty variant: the workers share one lock, so that nothing is taken by
\* the completion worker while the synthesis worker is busy.
Free_shared(w) == w.pc = "idle" /\ tts.pc \in {"idle", "exited"}

\* A worker takes its next request when it has none in hand.
Free(w) == w.pc = "idle"

\* process_queue and _process_request up to the engine call: nothing is taken
\* while a request is in hand or after stop.
Completion_take ==
    /\ llm.kind # "None"
    /\ Free(llm)
    /\ ~llm.should_exit
    /\ llm.queue # <<>>
    /\ llm' = [llm EXCEPT !.pc = "in_call", !.cur = Head(llm.queue),
                          !.queue = Tail(llm.queue)]
    /\ UNCHANGED <<stageVars, sideVars, streamVars, serverVars, splitVars, context, workerRefs,
                   ui, tts, asr, gui_events, ui_todo, clicks, segments,
                   mainHistory>>

\* The engine call returns: responseReady is emitted (by OpenAIWorker only
\* "if not self.should_exit") and queued for the GUI thread.
Completion_return ==
    /\ llm.pc = "in_call"
    /\ \E reply \in Replies :
          gui_events' = IF llm.kind = "OpenAIWorker" /\ llm.should_exit
                        THEN gui_events
                        ELSE Append(gui_events, Event("responseReady", reply))
    /\ llm' = [llm EXCEPT !.pc = "idle", !.cur = NoRequest]
    /\ UNCHANGED <<stageVars, sideVars, streamVars, serverVars, splitVars, context, workerRefs,
                   ui, tts, asr, ui_todo, clicks, segments, mainHistory>>

\* The engine call raises: "if not self.should_exit: self.errorOccurred.emit(...)"
Completion_raise ==
    /\ llm.pc = "in_call"
    /\ gui_events' = IF llm.should_exit THEN gui_events
                     ELSE Append(gui_events, Event("errorOccurred", "e"))
    /\ llm' = [llm EXCEPT !.pc = "idle", !.cur = NoRequest]
    /\ UNCHANGED <<stageVars, sideVars, streamVars, serverVars, splitVars, context, workerRefs,
                   ui, tts, asr, ui_todo, clicks, segments, mainHistory>>

\* -------------------------------------------------------- synthesis worker
\* run: the next text is taken and handed to tts_engine.synthesize.
Synthesis_take ==
    /\ tts.engine # "None"
    /\ Free(tts)
    /\ ~tts.should_exit
    /\ tts.queue # <<>>
    /\ tts' = [tts EXCEPT !.pc = "in_synth", !.cur = Head(tts.queue),
                          !.queue = Tail(tts.queue)]
    /\ UNCHANGED <<stageVars, sideVars, streamVars, serverVars, splitVars, context, workerRefs,
                   ui, llm, asr, gui_events, ui_todo, clicks, segments,
                   mainHistory>>

\* synthesize returns and the push to Audio2Face begins.
Synthesis_synthesize_return ==
    /\ tts.pc = "in_synth"
    /\ tts' = [tts EXCEPT !.pc = "in_push"]
    /\ UNCHANGED <<stageVars, sideVars, streamVars, serverVars, splitVars, context, workerRefs,
                   ui, llm, asr, gui_events, ui_todo, clicks, segments,
                   mainHistory>>

\* The push returns, or synthesize or the push raises: the request is over.
Synthesis_done ==
    /\ tts.pc \in {"in_synth", "in_push"}
    /\ tts' = [tts EXCEPT !.pc = "idle", !.cur = ""]
    /\ UNCHANGED <<stageVars, sideVars, streamVars, serverVars, splitVars, context, workerRefs,
                   ui, llm, asr, gui_events, ui_todo, clicks, segments,
                   mainHistory>>

\* run: "while not self.should_exit" ends and run returns.
Synthesis_exit ==
    /\ tts.pc = "idle"
    /\ tts.should_exit
    /\ tts' = [tts EXCEPT !.pc = "exited"]
    /\ UNCHANGED <<stageVars, sideVars, streamVars, serverVars, splitVars, context, workerRefs,
                   ui, llm, asr, gui_events, ui_todo, clicks, segments,
                   mainHistory>>

User ==
    \/ allStart \/ allStop \/ allClear \/ switch_llm_worker \/ ComboSelect
    \/ update_system_prompt

GuiThread ==
    \/ stop_asr \/ stop_asr_wait \/ stop_tts \/ stop_tts_wait \/ stop_llm
    \/ stop_llm_wait \/ switch_llm_worker_branch \/ start_asr \/ start_tts
    \/ allClear_reset \/ handle_transcription \/ display_llm_response
    \/ display_llm_error

Threads ==
    \/ Recognition_setup \/ Recognition_record_callback \/ Recognition_exit
    \/ Completion_take \/ Completion_return \/ Completion_raise
    \/ Synthesis_take \/ Synthesis_synthesize_return \/ Synthesis_done
    \/ Synthesis_exit

NextMain == User \/ GuiThread \/ Threads

SpecMain == InitMain /\ [][NextMain]_vars

\* ------------------------------------------------------------------- C21
\* C21: a synthesis request whose text is empty or only whitespace fails fast:
\* when its handling reaches the end, the stage has emitted one failure event
\* and no success event for it, and neither a synthesis call nor a delivery
\* session was made for it.
C21_EmptyTextFails ==
    (kind = "tts" /\ wpc = "finally" /\ Strip(cur.text) = <<>>)
        => /\ EventsOf(cur.id) = <<[req |-> cur.id, ok |-> FALSE]>>
           /\ ops = <<>>
           /\ \A i \in 1..Len(dispatched) : dispatched[i] # cur.id

\* ------------------------------------------------------------------- C22
\* The GUI thread takes the step at the head of ui_todo.
GuiStep(op, fn) ==
    /\ AtStep(op)
    /\ Head(ui_todo).fn = fn
    /\ ui_todo' # ui_todo

\* C22: selecting an LLM, a TTS engine or a recognizer that is not supported
\* fails with an error and does no partial work: the handler stops no running
\* worker, starts none (none of another kind either) and reports the error.
C22_UnsupportedSelection ==
    [][ /\ (GuiStep("stop_llm", "switch_llm_worker")
               /\ Head(ui_todo).arg \notin LLMChoices)
            => (llm' = llm /\ llm_worker' = llm_worker)
        /\ (GuiStep("start_llm", "switch_llm_worker")
               /\ Head(ui_todo).arg \notin LLMChoices)
            => (llm' = llm /\ llm_worker' = llm_worker
                /\ Len(surfaced') = Len(surfaced) + 1)
        /\ (GuiStep("stop_tts", "start_tts")
               /\ ui.ttsEngineCombo \notin SupportedTTSEngines)
            => (tts' = tts /\ tts_worker' = tts_worker)
        /\ (GuiStep("start_tts", "start_tts")
               /\ ui.ttsEngineCombo \notin SupportedTTSEngines)
            => (tts' = tts /\ tts_worker' = tts_worker
                /\ Len(surfaced') = Len(surfaced) + 1)
        /\ (GuiStep("stop_asr", "start_asr")
               /\ ui.recognizerMBOX \notin RecognizerChoices)
            => (asr' = asr /\ transcription_thread' = transcription_thread)
        /\ (GuiStep("start_asr", "start_asr")
               /\ ui.recognizerMBOX \notin RecognizerChoices)
            => (asr' = asr /\ transcription_thread' = transcription_thread
                /\ Len(surfaced') = Len(surfaced) + 1)
      ]_vars

\* ------------------------------------------------------------------- C23
\* The GUI thread's event loop hands the oldest queued event to its slot.
Dispatch(sig) == AtEvent(sig) /\ gui_events' = Tail(gui_events)

\* C23: for each transcript event the coordinator appends one user message
\* to the context and enqueues exactly one completion request, whose context
\* argument is the whole context at that moment, the new message included.
C23_OnTranscript ==
    [][ Dispatch("transcription")
          => /\ context' = Append(context, Msg("user", Head(gui_events).arg))
             /\ Len(llm'.queue) = Len(llm.queue) + 1
             /\ llm'.queue[Len(llm'.queue)].messages = context'
             /\ Len(requests') = Len(requests) + 1
      ]_vars

\* ------------------------------------------------------------------- C24
\* self.MAX_CONTEXT_LENGTH
MAX_CONTEXT_LENGTH == 50

\* How many queued events the longest conversation of SpecContext has.
MaxEvents == 104

\* A conversation as the GUI thread receives it: transcripts and completion
\* responses in turn.
Conversation(n) ==
    [i \in 1..n |-> IF i % 2 = 1 THEN Event("transcription", "hi")
                    ELSE Event("responseReady", "yes.")]

\* MainWindow after allStart, with the events of a conversation queued on the
\* GUI thread.
InitContext ==
    /\ NoWorker
    /\ NoStream
    /\ NoServer
    /\ NoSplit
    /\ NoSide
    /\ context = <<DeveloperMessage>>
    /\ llm_worker = "OpenAIWorker"
    /\ tts_worker = "TTSWorker"
    /\ transcription_thread = "Google"
    /\ ui = [LLMChocie |-> "OpenAI", ttsEngineCombo |-> "Google",
             recognizerMBOX |-> "Google", openai_group |-> TRUE,
             llama_group |-> FALSE]
    /\ llm = NewLLM("OpenAIWorker")
    /\ tts = [NoTTS EXCEPT !.engine = "GoogleTTSEngine", !.choice = "Google",
                           !.pc = "idle"]
    /\ asr = [kind |-> "Google", running |-> TRUE, pc |-> "listening"]
    /\ \E n \in 0..MaxEvents : gui_events = Conversation(n)
    /\ ui_todo = <<>>
    /\ clicks = 1
    /\ segments = 0
    /\ requests = <<>>
    /\ tts_emitted = <<>>
    /\ surfaced = <<>>
    /\ asr_log = [recognized |-> 0, failed |-> 0, emitted |-> 0]

\* The GUI thread works through the queued events.
NextContext == handle_transcription \/ display_llm_response

SpecContext == InitContext /\ [][NextContext]_vars

\* C24: whatever transcripts and completion responses have been handled, the
\* context holds at most MAX_CONTEXT_LENGTH + 1 entries and its first entry
\* is the developer (or system) message.
C24_ContextBound ==
    /\ Len(context) <= MAX_CONTEXT_LENGTH + 1
    /\ context # <<>>
    /\ context[1].role \in {"developer", "system"}

\* ------------------------------------------------------------------- C25
\* What a completion failure leaves behind: the error is surfaced, and
\* neither the context nor the synthesis stage is touched.
FailureSurfaced ==
    Dispatch("errorOccurred")
        => /\ surfaced' = Append(surfaced, "LLM Error")
           /\ context' = context
           /\ tts_emitted' = tts_emitted
           /\ tts' = tts

\* C25, as stated: on each completion success one assistant message is
\* appended to the context and one synthesis request carrying the response
\* text is enqueued; on a completion failure the error is surfaced, nothing
\* is appended and nothing is enqueued.
C25_ResultWiring ==
    [][ /\ Dispatch("responseReady")
            => /\ context' = Append(context, Msg("assistant", Head(gui_events).arg))
               /\ tts'.queue = Append(tts.queue, Head(gui_events).arg)
        /\ FailureSurfaced
      ]_vars

\* C25, amended: on each completion success one assistant message is
\* appended to the context and the response text is emitted once on
\* tts_request_signal; that enqueues one synthesis request carrying the text
\* when a synthesis worker is running and nothing when there is none.  On a
\* completion failure the error is surfaced, nothing is appended and nothing
\* is enqueued.
C25_ResultWiringWhileRunning ==
    [][ /\ Dispatch("responseReady")
            => /\ context' = Append(context, Msg("assistant", Head(gui_events).arg))
               /\ tts_emitted' = Append(tts_emitted, Head(gui_events).arg)
               /\ surfaced' = surfaced
               /\ IF tts_worker # "None"
                  THEN tts' = [tts EXCEPT !.queue = Append(@, Head(gui_events).arg)]
                  ELSE tts' = tts
        /\ FailureSurfaced
      ]_vars

\* A reply has been appended and handed to the running synthesis worker, and
\* the failure of another turn has been surfaced.
C25_Witness ==
    /\ tts_worker # "None"
    /\ Len(tts_emitted) = 1
    /\ context = <<DeveloperMessage, Msg("assistant", tts_emitted[1])>>
    /\ tts.queue = tts_emitted \/ tts.cur = tts_emitted[1]
    /\ surfaced = <<"LLM Error">>

\* ------------------------------------------------------------------- C26
\* C26: a failure of the recognition stage emits no transcript event, so
\* that no completion request is enqueued for it: every transcript emitted
\* is a recognized text, and every request carries one.
C26_RecognitionFailure ==
    /\ asr_log.emitted = asr_log.recognized
    /\ \A i \in 1..Len(gui_events) :
          gui_events[i].sig = "transcription" => gui_events[i].arg \in Utterances
    /\ \A k \in 1..Len(requests) : requests[k].user_input \in Utterances

\* ------------------------------------------------------------------- C27
\* The requests the completion worker holds: those on its queue and the one
\* its engine call was given.
HeldRequests ==
    { llm.queue[i] : i \in 1..Len(llm.queue) }
        \cup (IF llm.pc = "in_call" THEN {llm.cur} ELSE {})

\* C27: the messages list of a request is never changed once the request is
\* enqueued, neither by the coordinator nor by the worker: on the queue and
\* in the engine call it holds the messages it held at enqueue time.
C27_SnapshotIsolation ==
    \A r \in HeldRequests : r.messages = requests[r.id].messages

\* A request is held by the worker while the coordinator has appended to the
\* context since that request was enqueued.
C27_Witness ==
    \E r \in HeldRequests :
        /\ Len(context) > Len(requests[r.id].context)
        /\ llm.pc = "in_call"

MaxSideReq == 2

AdapterOutcomes == {"value", "exception"}

InitSide ==
    /\ workers = [k \in Kinds |-> NoStage]
    /\ outcomes \in [1..MaxSideReq -> AdapterOutcomes]
    /\ calls = <<>>
    /\ NoWorker
    /\ NoStream
    /\ NoServer
    /\ NoSplit
    /\ NoMain

Added == Cardinality({ i \in 1..Len(calls) : calls[i] = "add_request" })

\* add_request on each of the three: "if self.should_exit: return", else put.
Side_add_request ==
    /\ Added < MaxSideReq
    /\ workers' = [k \in Kinds |->
                     IF workers[k].should_exit
                     THEN workers[k]
                     ELSE [workers[k] EXCEPT
                             !.request_queue = Append(@, Added + 1)]]
    /\ calls' = Append(calls, "add_request")
    /\ UNCHANGED <<stageVars, streamVars, serverVars, splitVars, mainVars, outcomes>>

\* stop on each of the three: the flag is set and the queue cleared.
Side_stop ==
    /\ \A i \in 1..Len(calls) : calls[i] # "stop"
    /\ workers' = [k \in Kinds |->
                     [workers[k] EXCEPT !.should_exit = TRUE,
                                        !.request_queue = <<>>,
                                        !.at_stop = workers[k].cur]]
    /\ calls' = Append(calls, "stop")
    /\ UNCHANGED <<stageVars, streamVars, serverVars, splitVars, mainVars, outcomes>>

\* The dequeue, which all three guard alike: not processing, not stopped,
\* queue not empty.
CanTake(w) == ~w.is_processing /\ ~w.should_exit /\ w.request_queue # <<>>

\* get(), "self.is_processing = True", and the engine is called.
Taken(w) ==
    [w EXCEPT !.cur = Head(w.request_queue),
              !.request_queue = Tail(w.request_queue),
              !.is_processing = TRUE,
              !.dispatched = Append(@, Head(w.request_queue))]

\* The engine call of worker w is to end with this outcome.
Ends(w, outcome) == w.is_processing /\ outcomes[w.cur] = outcome

\* The event, if one is emitted; "finally: self.is_processing = False".
Finished(w, emits) ==
    [w EXCEPT !.events = IF emits
                         THEN Append(@, [req |-> w.cur,
                                         ok |-> outcomes[w.cur] = "value"])
                         ELSE @,
              !.is_processing = FALSE,
              !.cur = 0]

\* The other two workers, and everything else, stay as they are.
OnlyWorker(k, w) ==
    /\ workers' = [workers EXCEPT ![k] = w]
    /\ UNCHANGED <<stageVars, streamVars, serverVars, splitVars, mainVars,
                   outcomes, calls>>

TTSWorker_run_get ==
    /\ CanTake(workers["tts"])
    /\ OnlyWorker("tts", Taken(workers["tts"]))

\* _process_text_to_a2f ends with self.ttsFinished.emit(...)
TTSWorker_process_text_to_a2f ==
    /\ Ends(workers["tts"], "value")
    /\ OnlyWorker("tts", Finished(workers["tts"], TRUE))

\* run: "except Exception as e: ... self.ttsError.emit(str(e))"
TTSWorker_run_except ==
    /\ Ends(workers["tts"], "exception")
    /\ OnlyWorker("tts", Finished(workers["tts"], TRUE))

OpenAIWorker_process_queue ==
    /\ CanTake(workers["openai"])
    /\ OnlyWorker("openai", Taken(workers["openai"]))

\* "if self.should_exit: return" before self.responseReady.emit(...)
OpenAIWorker_process_request ==
    /\ Ends(workers["openai"], "value")
    /\ OnlyWorker("openai", Finished(workers["openai"],
                                     ~workers["openai"].should_exit))

\* "if not self.should_exit: self.errorOccurred.emit(str(e))"
OpenAIWorker_except ==
    /\ Ends(workers["openai"], "exception")
    /\ OnlyWorker("openai", Finished(workers["openai"],
                                     ~workers["openai"].should_exit))

OllamaWorker_process_queue ==
    /\ CanTake(workers["ollama"])
    /\ OnlyWorker("ollama", Taken(workers["ollama"]))

\* self.responseReady.emit(response_content), with no test before it
OllamaWorker_process_request ==
    /\ Ends(workers["ollama"], "value")
    /\ OnlyWorker("ollama", Finished(workers["ollama"], TRUE))

\* "if not self.should_exit: self.errorOccurred.emit(str(e))"
OllamaWorker_except ==
    /\ Ends(workers["ollama"], "exception")
    /\ OnlyWorker("ollama", Finished(workers["ollama"],
                                     ~workers["ollama"].should_exit))

NextSide ==
    \/ Side_add_request \/ Side_stop
    \/ TTSWorker_run_get \/ TTSWorker_process_text_to_a2f \/ TTSWorker_run_except
    \/ OpenAIWorker_process_queue \/ OpenAIWorker_process_request
    \/ OpenAIWorker_except
    \/ OllamaWorker_process_queue \/ OllamaWorker_process_request
    \/ OllamaWorker_except

SpecSide == InitSide /\ [][NextSide]_vars

\* ------------------------------------------------------------------- C29
\* Every worker has finished what it took and has nothing left to take.
Quiescent ==
    \A k \in Kinds :
        /\ ~workers[k].is_processing
        /\ workers[k].request_queue = <<>> \/ workers[k].should_exit

\* The three runs took the same course: each worker handed the same requests
\* to its engine, and stop() found the same request in flight in each.
SameCourse ==
    \A k1, k2 \in Kinds :
        /\ workers[k1].dispatched = workers[k2].dispatched
        /\ workers[k1].at_stop = workers[k2].at_stop

\* C29: given the same add_request and stop calls and the same engine
\* outcomes, and the same requests in flight at the same calls, the three
\* workers have emitted the same sequence of success/failure events once
\* they are done, also when a request was in flight at stop().
C29_SameEvents ==
    (Quiescent /\ SameCourse)
        => \A k1, k2 \in Kinds : workers[k1].events = workers[k2].events

\* --------------------------------------------------------- push_audio_track
\* One call of push_audio_track (the single push), with a track as the
\* engines return it: a float32 array and its sample rate.
PushSampleRates == SampleRates \cup {16000}

InitPush ==
    /\ NoWorker
    /\ audio_data \in Buffers
    /\ samplerate \in PushSampleRates
    /\ chunk_duration = 1
    /\ block_until_playback_is_finished \in BOOLEAN
    /\ gpc = "push"
    /\ idx = 0
    /\ msgs = <<>>
    /\ sleeps = <<>>
    /\ NoServer
    /\ NoSplit
    /\ NoMain
    /\ NoSide

\* Faulty variant: request.samplerate is never set and keeps its default.
push_audio_track_no_rate ==
    /\ gpc = "push"
    /\ msgs' = Append(msgs,
                 [audio_data |-> ToBytes(audio_data),
                  samplerate |-> 0,
                  instance_name |-> InstanceName,
                  block_until_playback_is_finished |-> block_until_playback_is_finished])
    /\ gpc' = "sent"
    /\ UNCHANGED <<stageVars, sideVars, serverVars, splitVars, mainVars, audio_data,
                   samplerate, chunk_duration, block_until_playback_is_finished,
                   idx, sleeps>>

\* push_audio_track: the channel is opened, the PushAudioRequest is filled
\* in, "request.audio_data = audio_data.astype(np.float32).tobytes()", and
\* stub.PushAudio(request) sends it.
push_audio_track ==
    /\ gpc = "push"
    /\ msgs' = Append(msgs,
                 [audio_data |-> ToBytes(audio_data),
                  samplerate |-> samplerate,
                  instance_name |-> InstanceName,
                  block_until_playback_is_finished |-> block_until_playback_is_finished])
    /\ gpc' = "sent"
    /\ UNCHANGED <<stageVars, sideVars, serverVars, splitVars, mainVars, audio_data,
                   samplerate, chunk_duration, block_until_playback_is_finished,
                   idx, sleeps>>

\* stub.PushAudio returns the response, the outcome is printed and the
\* channel is closed.
push_audio_track_response ==
    /\ gpc = "sent"
    /\ gpc' = "closed"
    /\ UNCHANGED <<stageVars, sideVars, serverVars, splitVars, mainVars, audio_data,
                   samplerate, chunk_duration, block_until_playback_is_finished,
                   idx, msgs, sleeps>>

NextPush == push_audio_track \/ push_audio_track_response

SpecPush == InitPush /\ [][NextPush]_vars

\* Audio2FaceServicer.PushAudio:
\* "audio_data = np.frombuffer(request.audio_data, dtype=np.float32)"
PushAudio_audio_data(request) == FromBytes(request.audio_data)

\* ------------------------------------------------------------------- C30
\* C30: push_audio_track sends exactly one request message per buffer; it
\* holds the whole buffer as float32 bytes (four per sample), the sample
\* rate, the instance name and the blocking flag; decoding audio_data as the
\* server's PushAudio does gives the same samples in the same order.
C30_SinglePushRoundTrip ==
    /\ gpc = "push" => msgs = <<>>
    /\ gpc \in {"sent", "closed"}
         => /\ Len(msgs) = 1
            /\ Len(msgs[1].audio_data) = 4 * Len(audio_data)
            /\ msgs[1].samplerate = samplerate
            /\ msgs[1].instance_name = InstanceName
            /\ msgs[1].block_until_playback_is_finished
                   = block_until_playback_is_finished
            /\ PushAudio_audio_data(msgs[1]) = audio_data

\* The push of [0.0, 0.5, -0.5, 1.0] at rate 16000 has been made.
C30_Witness ==
    /\ gpc = "closed"
    /\ audio_data = <<"0.0", "0.5", "-0.5", "1.0">>
    /\ samplerate = 16000
    /\ Len(msgs) = 1
    /\ PushAudio_audio_data(msgs[1]) = <<"0.0", "0.5", "-0.5", "1.0">>

\* ------------------------------- GoogleASRTranscriptionThread.record_callback
\* One call of record_callback whose request came back with status 200: the
\* loop over response.text.splitlines().  asr holds the callback's locals, the
\* lines of the response and the index of the next one.  A line is a
\* transcript object, an object with an empty result list, blank, not JSON,
\* or JSON whose first result has no alternative.
MaxLines == 3

LineKinds == {"transcript", "empty_result", "blank", "not_json", "no_alternative"}

Responses == UNION { [1..n -> LineKinds] : n \in 0..MaxLines }

InitCallback ==
    /\ NoWorker
    /\ NoStream
    /\ NoServer
    /\ NoSplit
    /\ NoSide
    /\ context = <<>>
    /\ llm_worker = "None"
    /\ tts_worker = "None"
    /\ transcription_thread = "GoogleASRTranscriptionThread"
    /\ ui = [LLMChocie |-> "", ttsEngineCombo |-> "", recognizerMBOX |-> "",
             openai_group |-> FALSE, llama_group |-> FALSE]
    /\ llm = NoLLM
    /\ tts = NoTTS
    /\ \E lines \in Responses :
          asr = [kind |-> "Google", running |-> TRUE, pc |-> "lines",
                 lines |-> lines, line |-> 1]
    /\ gui_events = <<>>
    /\ ui_todo = <<[op |-> "closed", fn |-> "", arg |-> ""]>>
    /\ clicks = 0
    /\ segments = 1
    /\ requests = <<>>
    /\ tts_emitted = <<>>
    /\ surfaced = <<>>
    /\ asr_log = [recognized |-> 0, failed |-> 0, emitted |-> 0]

\* One turn of "for line in response.text.splitlines()" that stays in the
\* loop: a blank line is passed over; json.loads raising JSONDecodeError is
\* logged by the inner except; an object without results emits nothing; a
\* transcript is emitted on transcription_signal.
record_callback_line ==
    /\ asr.pc = "lines"
    /\ asr.line <= Len(asr.lines)
    /\ asr.lines[asr.line] # "no_alternative"
    /\ LET line == asr.lines[asr.line]
       IN /\ gui_events' = IF line = "transcript"
                           THEN Append(gui_events, Event("transcription", asr.line))
                           ELSE gui_events
          /\ surfaced' = IF line = "not_json"
                         THEN Append(surfaced, "JSONDecodeError")
                         ELSE surfaced
    /\ asr' = [asr EXCEPT !.line = @ + 1]
    /\ UNCHANGED <<stageVars, sideVars, streamVars, serverVars, splitVars, context, workerRefs,
                   ui, llm, tts, ui_todo, clicks, segments, requests, tts_emitted,
                   asr_log>>

\* A turn in which response_json["result"][0]["alternative"][0]["transcript"]
\* raises KeyError or IndexError: the inner except takes JSONDecodeError only,
\* so the exception leaves the for loop and is logged by
\* "except Exception as e: ... Error processing JSON stream".
record_callback_line_raises ==
    /\ asr.pc = "lines"
    /\ asr.line <= Len(asr.lines)
    /\ asr.lines[asr.line] = "no_alternative"
    /\ surfaced' = Append(surfaced, "Error processing JSON stream")
    /\ asr' = [asr EXCEPT !.pc = "returned"]
    /\ UNCHANGED <<stageVars, sideVars, streamVars, serverVars, splitVars, context, workerRefs,
                   ui, llm, tts, gui_events, ui_todo, clicks, segments, requests,
                   tts_emitted, asr_log>>

\* The lines are used up and record_callback returns.
record_callback_return ==
    /\ asr.pc = "lines"
    /\ asr.line > Len(asr.lines)
    /\ asr' = [asr EXCEPT !.pc = "returned"]
    /\ UNCHANGED <<stageVars, sideVars, streamVars, serverVars, splitVars, context, workerRefs,
                   ui, llm, tts, gui_events, ui_todo, clicks, segments,
                   mainHistory>>

NextCallback ==
    record_callback_line \/ record_callback_line_raises \/ record_callback_return

SpecCallback == InitCallback /\ [][NextCallback]_vars

\* ------------------------------------------------------------------- C31
\* The indices of the lines of the given kinds, in line order.
RECURSIVE LinesOf(_, _, _)
LinesOf(lines, kinds, i) ==
    IF i > Len(lines) THEN <<>>
    ELSE (IF lines[i] \in kinds THEN <<i>> ELSE <<>>) \o LinesOf(lines, kinds, i + 1)

\* C31: when record_callback has returned, every transcript line of the
\* response, before or after a malformed one, has given its transcript
\* event, in line order, and every line that could not be processed has
\* been logged.
C31_MalformedLinesSkipped ==
    asr.pc = "returned"
        => /\ [i \in 1..Len(gui_events) |-> gui_events[i].arg]
                 = LinesOf(asr.lines, {"transcript"}, 1)
           /\ Len(surfaced)
                 = Len(LinesOf(asr.lines, {"not_json", "no_alternative"}, 1))

\* ------------------------------------------------------------------- C32
\* The worker is between requests: at the top of its loop or in its event
\* loop, testing the flag or the queue.
WorkerIdle == wpc \in {"loop", "chk_empty", "evloop", "pq_chk", "pq_empty"}

\* The worker is inside Queue.get() on an empty queue.
WorkerBlocked == wpc \in {"get", "pq_get"} /\ request_queue = <<>>

\* C32: is_processing is true only while a dequeued request is in hand (or
\* is being taken from a queue that holds one), and it is false whenever the
\* worker is idle, blocked waiting for work, or has exited.
C32_ProcessingFlag ==
    /\ is_processing => (cur # NoReq \/ (wpc = "pq_get" /\ request_queue # <<>>))
    /\ (WorkerIdle \/ WorkerBlocked \/ wpc = "exited") => ~is_processing

\* ------------------------------------------------------------------- C33
\* C33: once stop() has returned on a completion worker, no step of that
\* worker emits responseReady or errorOccurred, whether the engine call that
\* was in flight returns or raises afterwards.
C33_NoEventAfterStop ==
    [][(IsLLM /\ stopReturned) => events' = events]_vars

\* ------------------------------------------------------------------- C34
\* C34: whenever the GUI thread runs handle_transcription (and with it
\* send_to_llm) for a queued transcript event, llm_worker refers to a worker.
C34_TranscriptHasWorker ==
    [][Dispatch("transcription") => llm_worker # "None"]_vars

\* ---------------------------- listen_in_background_with_sr / recognize_speech
\* The listener thread and the recognition thread of asr_utils.py over their
\* two queues.  The recognition stage is written over the stage's variables:
\* request_queue is audio_queue, events is response_queue, should_exit is
\* stop_event, kind is recognizer_type, cpc is the listener's position and
\* wpc the recognizer's, nextId numbers the segments captured, cur.id is the
\* segment the recognizer holds and cur.text its local variable text (0 while
\* unbound); the result of recognizing segment n is written n.  dispatched
\* lists the segments given to an engine, raised those whose recognition
\* failed, dropped those the listener took off the queue itself.
RecognizerTypes ==
    {"Google Web Speech API", "Google Cloud Speech API", "Whisper", "Whisper API"}

\* A selection recognize_speech has no branch for.
OtherRecognizerType == "Sphinx"

stageRest == <<use_streaming, is_processing, sentences, sidx, pending, creq,
               accepted, inflight, finished, stopReturned, stopAt, ops>>

InitListen ==
    /\ kind \in RecognizerTypes \cup {OtherRecognizerType}
    /\ use_streaming = FALSE
    /\ request_queue = <<>>
    /\ should_exit = FALSE
    /\ is_processing = FALSE
    /\ wpc = "while"
    /\ cur = [id |-> 0, text |-> 0]
    /\ sentences = <<>>
    /\ sidx = 0
    /\ pending = 0
    /\ cpc = "while"
    /\ creq = NoReq
    /\ nextId = 1
    /\ events = <<>>
    /\ accepted = <<>>
    /\ dispatched = <<>>
    /\ inflight = {}
    /\ finished = {}
    /\ raised = {}
    /\ dropped = {}
    /\ stopReturned = FALSE
    /\ stopAt = "none"
    /\ ops = <<>>
    /\ NoStream
    /\ NoServer
    /\ NoSplit
    /\ NoMain
    /\ NoSide

\* Whoever owns the threads sets stop_event.
stop_event_set ==
    /\ ~should_exit
    /\ should_exit' = TRUE
    /\ UNCHANGED <<otherVars, stageRest, kind, request_queue, wpc, cur, cpc, nextId,
                   events, dispatched, raised, dropped>>

\* listen_in_background_with_sr: "while not stop_event.is_set():", then
\* recognizer.listen(source) and "audio_queue.put((audio, language))"; when
\* listening raises, the error is logged and nothing is put.
listen_in_background_with_sr ==
    /\ cpc = "while"
    /\ IF should_exit
       THEN cpc' = "stopped" /\ UNCHANGED <<request_queue, nextId>>
       ELSE /\ nextId <= MaxReq
            /\ cpc' = "check"
            /\ \/ /\ request_queue' = Append(request_queue, nextId)
                  /\ nextId' = nextId + 1
               \/ UNCHANGED <<request_queue, nextId>>
    /\ UNCHANGED <<otherVars, stageRest, kind, should_exit, wpc, cur, events,
                   dispatched, raised, dropped>>

\* listen_in_background_with_sr: "if not audio_queue.empty() and ..."
listen_check_empty ==
    /\ cpc = "check"
    /\ cpc' = IF request_queue = <<>> THEN "while" ELSE "get"
    /\ UNCHANGED <<otherVars, stageRest, kind, request_queue, should_exit, wpc, cur,
                   nextId, events, dispatched, raised, dropped>>

\* listen_in_background_with_sr: "... audio_queue.get() is None: break": the
\* listener takes an item off audio_queue (blocking while it is empty); the
\* item is a segment, not None, and the loop goes on without it.
listen_get ==
    /\ cpc = "get"
    /\ request_queue # <<>>
    /\ request_queue' = Tail(request_queue)
    /\ dropped' = dropped \cup {Head(request_queue)}
    /\ cpc' = "while"
    /\ UNCHANGED <<otherVars, stageRest, kind, should_exit, wpc, cur, nextId, events,
                   dispatched, raised>>

\* recognize_speech: "while not stop_event.is_set():" and
\* "if not audio_queue.empty():"
recognize_speech_while ==
    /\ wpc = "while"
    /\ should_exit \/ request_queue # <<>>
    /\ wpc' = IF should_exit THEN "stopped" ELSE "get"
    /\ UNCHANGED <<otherVars, stageRest, kind, request_queue, should_exit, cur, cpc,
                   nextId, events, dispatched, raised, dropped>>

\* recognize_speech: "audio, language = audio_queue.get()" (blocking while
\* the queue is empty) and the choice of the branch: an unsupported
\* recognizer_type raises ValueError, which no except clause takes.
recognize_speech_get ==
    /\ wpc = "get"
    /\ request_queue # <<>>
    /\ request_queue' = Tail(request_queue)
    /\ cur' = [cur EXCEPT !.id = Head(request_queue)]
    /\ IF kind \in RecognizerTypes
       THEN wpc' = "recognize" /\ dispatched' = Append(dispatched, Head(request_queue))
       ELSE wpc' = "raised" /\ dispatched' = dispatched
    /\ UNCHANGED <<otherVars, stageRest, kind, should_exit, cpc, nextId, events,
                   raised, dropped>>

\* Faulty variant: a failed recognition is logged where it happens and the
\* iteration goes on to the put.
recognize_speech_recognize_on ==
    /\ wpc = "recognize"
    /\ \/ /\ cur' = [cur EXCEPT !.text = IF kind = "Whisper" THEN @ ELSE cur.id]
          /\ raised' = raised
       \/ /\ raised' = raised \cup {cur.id}
          /\ cur' = cur
    /\ wpc' = "put"
    /\ UNCHANGED <<otherVars, stageRest, kind, request_queue, should_exit, cpc, nextId,
                   events, dispatched, dropped>>

\* recognize_speech: the engine call.  The Google and Whisper API branches
\* bind text to the result; a failure (UnknownValueError, RequestError) goes
\* to the except clauses of the loop and the iteration ends.  The Whisper
\* branch binds result, not text, and takes its failures itself, so it goes
\* on to the put either way.
recognize_speech_recognize ==
    /\ wpc = "recognize"
    /\ \/ /\ cur' = [cur EXCEPT !.text = IF kind = "Whisper" THEN @ ELSE cur.id]
          /\ raised' = raised
          /\ wpc' = "put"
       \/ /\ raised' = raised \cup {cur.id}
          /\ cur' = cur
          /\ wpc' = IF kind = "Whisper" THEN "put" ELSE "while"
    /\ UNCHANGED <<otherVars, stageRest, kind, request_queue, should_exit, cpc, nextId,
                   events, dispatched, dropped>>

\* recognize_speech: 'logger.info(f"Recognized speech: {text}")' and
\* "response_queue.put(text)"; reading text while it is unbound raises
\* UnboundLocalError, which no except clause takes.
recognize_speech_put ==
    /\ wpc = "put"
    /\ IF cur.text = 0
       THEN wpc' = "raised" /\ events' = events
       ELSE /\ wpc' = "while"
            /\ events' = Append(events, [seg |-> cur.id, text |-> cur.text])
    /\ UNCHANGED <<otherVars, stageRest, kind, request_queue, should_exit, cur, cpc,
                   nextId, dispatched, raised, dropped>>

NextListen ==
    \/ stop_event_set
    \/ listen_in_background_with_sr \/ listen_check_empty \/ listen_get
    \/ recognize_speech_while \/ recognize_speech_get
    \/ recognize_speech_recognize \/ recognize_speech_put

SpecListen == InitListen /\ [][NextListen]_vars

\* ------------------------------------------------------------------- C35
\* C35: no segment put on audio_queue is taken off it by the listener, and
\* no segment is given to the recognition engine more than once.
C35_NoSegmentLost ==
    /\ dropped = {}
    /\ \A r \in 1..MaxReq + 1 : Count(dispatched, r) <= 1

\* ------------------------------------------------------------------- C39
\* C39: every text on response_queue is the result of the segment that was
\* dequeued in the iteration that put it, and a segment whose recognition
\* failed has put nothing.
C39_ResultOfOwnSegment ==
    \A i \in 1..Len(events) :
        /\ events[i].text = events[i].seg
        /\ events[i].seg \notin raised

\* A segment's text has been put after the recognition of an earlier segment
\* had failed and after another had given its own text.
C39_Witness ==
    \E i, j \in 1..Len(events) :
        /\ i < j
        /\ events[j].text = events[j].seg
        /\ \E r \in raised : events[i].seg < r /\ r < events[j].seg

\* ------------------------------------- push_audio_track_stream, any chunking
\* One call of push_audio_track_stream for any sample rate and any setting of
\* the ttsChunkDuration slider (range 1..99), the rate not being tied to the
\* slider: chunk durations above the sample rate are included.  A generator
\* that does not end is followed for a few messages past the longest track.
AnyChunkDurations == ChunkDurations \cup {16}

InitStreamAny ==
    /\ NoWorker
    /\ audio_data \in Buffers
    /\ samplerate \in SampleRates
    /\ chunk_duration \in AnyChunkDurations
    /\ block_until_playback_is_finished \in BOOLEAN
    /\ gpc = "start"
    /\ idx = 0
    /\ msgs = <<>>
    /\ sleeps = <<>>
    /\ NoServer
    /\ NoSplit
    /\ NoMain
    /\ NoSide

\* One turn of the generator's loop, while it is being followed.
Stream_chunk_followed ==
    /\ Len(msgs) <= MaxSamples + MaxMsgs
    /\ Stream_chunk

NextStreamAny == Stream_start_marker \/ Stream_chunk_followed \/ Stream_close

SpecStreamAny == InitStreamAny /\ [][NextStreamAny]_vars

\* ------------------------------------------------------------------- C36
\* C36: every chunk the generator yields moves the read index forward, so
\* that it reaches the length of the buffer after finitely many messages.
C36_IndexAdvances ==
    [][(gpc = "chunks" /\ gpc' = "chunks") => idx' > idx]_vars

\* ------------------------------------------------------------------- C37
\* C37: when the handling of a request whose text is not empty after trimming
\* ends with a success event, at least one utterance of that request has been
\* synthesized and delivered in a session.
C37_SuccessMeansDelivered ==
    (/\ kind = "tts"
     /\ wpc = "finally"
     /\ Strip(cur.text) # <<>>
     /\ \E n \in 1..Len(events) : events[n].req = cur.id /\ events[n].ok)
        => \E u \in 1..Len(ops) : UttNames(u) \in DeliveredBlocks

\* ------------------------------------------------------------------- C38
\* C38: a worker is created only when the worker that stage had before has
\* been stopped and its thread has ended, so that no stage ever has two
\* workers that are not stopped; and when allStop has run, the three worker
\* references are null and no worker thread is left.
C38_OneWorkerPerStage ==
    [][ /\ (AtStep("start_llm") /\ llm' # llm)
            => (llm = NoLLM /\ llm_worker = "None")
        /\ (AtStep("start_tts") /\ tts' # tts)
            => (tts = NoTTS /\ tts_worker = "None")
        /\ (AtStep("start_asr") /\ asr' # asr)
            => (asr = NoASR /\ transcription_thread = "None")
        /\ (ui_todo # <<>> /\ Head(ui_todo).fn = "allStop"
               /\ ui_todo' = Tail(ui_todo)
               /\ (ui_todo' = <<>> \/ Head(ui_todo').fn # "allStop"))
            => /\ llm_worker' = "None" /\ llm' = NoLLM
               /\ tts_worker' = "None" /\ tts' = NoTTS
               /\ transcription_thread' = "None" /\ asr' = NoASR
      ]_vars

\* After allStart the user has switched the completion worker: the second
\* worker runs, the first is gone, and the other two stages are as they were.
C38_Witness ==
    /\ clicks = 2
    /\ ui_todo = <<>>
    /\ llm_worker = "OllamaWorker"
    /\ llm.kind = "OllamaWorker"
    /\ tts_worker = "TTSWorker"
    /\ transcription_thread # "None"

====
